---------------------------- MODULE Spec2Model ----------------------------
(***************************************************************************)
(* Model of the MedGuard scan pipeline: services/scanService.ts (pattern   *)
(* scan, risk scoring, folder aggregation, the two scan orchestrators),    *)
(* routes/scanRoutes.ts (request validation, HTTP answers) and             *)
(* alertService.createAlert.                                               *)
(***************************************************************************)
EXTENDS Integers, Sequences, FiniteSets, TLC

VARIABLES
    pc,             \* where each call stands
    request,        \* the body each call received
    local,          \* the local variables of the running service function
    response,       \* the HTTP answer each call has sent
    scans,          \* table scans
    scanned_files,  \* table scanned_files
    phi_findings,   \* table phi_findings
    folder_risks,   \* table folder_risks
    alerts,         \* table alerts
    alertCalls,     \* the arguments of every call of alertService.createAlert
    findingsIn,     \* scoring alone: the findings list handed to the scorer
    scoreOut,       \* scoring alone: the score and level computed for it
    contentIn,      \* scanning alone: the content handed to scanContentForPhi
    fileNameIn,     \* scanning alone: the file name handed to scanContentForPhi
    textScanned,    \* scanning alone: its local textToScan
    scanOut,        \* scanning alone: the result it returned
    valueIn,        \* masking alone: the value handed to maskSensitiveData
    maskOut,        \* masking alone: the sample it returned
    filesIn,        \* aggregation alone: the file rows handed to the aggregator
    rootPathIn,     \* aggregation alone: the root path handed to the aggregator
    aggregatesOut,  \* aggregation alone: what computeFolderAggregates returned
    totalsOut,      \* aggregation alone: the scan-level totals of the same rows
    file_fingerprints, \* table file_fingerprints, which no scan writes
    duplicates      \* the answer of GET /files/:fileId/duplicates, per file looked up

(***************************************************************************)
(* JavaScript numbers.  calculateRiskScore works on IEEE-754 binary64      *)
(* values, and Math.round is applied to a sum that often lies next to a    *)
(* half-integer, so the arithmetic is modelled bit-exactly: a number is    *)
(* m * 2^e with m a natural number of at most 53 bits, kept as a           *)
(* little-endian sequence of 15-bit limbs, and every operation rounds to   *)
(* nearest, ties to even.                                                  *)
(***************************************************************************)
LimbBits == 15

Limb == 2 ^ LimbBits

MantissaBits == 53

DivGuardBits == 75

RECURSIVE BNorm(_)
BNorm(a) ==
    IF a = <<>> THEN <<>>
    ELSE IF a[Len(a)] = 0 THEN BNorm(SubSeq(a, 1, Len(a) - 1))
    ELSE a

BFromInt(n) ==
    LET RECURSIVE limbs(_)
        limbs(k) == IF k = 0 THEN <<>> ELSE <<k % Limb>> \o limbs(k \div Limb)
    IN  limbs(n)

BToInt(a) ==
    LET RECURSIVE val(_)
        val(s) == IF s = <<>> THEN 0 ELSE Head(s) + Limb * val(Tail(s))
    IN  val(a)

BAdd(a, b) ==
    LET RECURSIVE add(_, _, _)
        add(x, y, carry) ==
            IF x = <<>> /\ y = <<>>
            THEN IF carry = 0 THEN <<>> ELSE <<carry>>
            ELSE LET xd == IF x = <<>> THEN 0 ELSE Head(x)
                     yd == IF y = <<>> THEN 0 ELSE Head(y)
                     s  == xd + yd + carry
                 IN  <<s % Limb>> \o add(IF x = <<>> THEN <<>> ELSE Tail(x),
                                         IF y = <<>> THEN <<>> ELSE Tail(y),
                                         s \div Limb)
    IN  add(a, b, 0)

BMulSmall(a, k) ==
    LET RECURSIVE mul(_, _)
        mul(x, carry) ==
            IF x = <<>>
            THEN IF carry = 0 THEN <<>> ELSE <<carry>>
            ELSE LET p == Head(x) * k + carry
                 IN  <<p % Limb>> \o mul(Tail(x), p \div Limb)
    IN  BNorm(mul(a, 0))

RECURSIVE BMul(_, _)
BMul(a, b) ==
    IF b = <<>> \/ a = <<>> THEN <<>>
    ELSE BNorm(BAdd(BMulSmall(a, Head(b)), <<0>> \o BMul(a, Tail(b))))

\* <<quotient, remainder>> of a by the small natural d
DivStep(hi, cur, d) == <<(<<cur \div d>>) \o hi[1], cur % d>>

DivLimb(hi, limb, d) == DivStep(hi, hi[2] * Limb + limb, d)

RECURSIVE BDivLimbs(_, _)
BDivLimbs(x, d) ==
    IF x = <<>> THEN <<(<<>>), 0>>
    ELSE DivLimb(BDivLimbs(Tail(x), d), Head(x), d)

NormQuotient(r) == <<BNorm(r[1]), r[2]>>

BDivSmall(a, d) == NormQuotient(BDivLimbs(a, d))

Zeros(n) == [i \in 1..n |-> 0]

BShl(a, s) ==
    IF a = <<>> THEN <<>>
    ELSE BMulSmall(Zeros(s \div LimbBits) \o a, 2 ^ (s % LimbBits))

\* <<floor(a / 2^s), TRUE iff a bit was shifted out>>
ShiftedOut(d, low) == <<d[1], d[2] # 0 \/ \E i \in 1..Len(low) : low[i] # 0>>

BShr(a, s) ==
    LET q     == s \div LimbBits
        low   == SubSeq(a, 1, IF q < Len(a) THEN q ELSE Len(a))
        rest  == IF q < Len(a) THEN SubSeq(a, q + 1, Len(a)) ELSE <<>>
    IN  ShiftedOut(BDivSmall(rest, 2 ^ (s % LimbBits)), low)

BitLen(a) ==
    LET RECURSIVE bits(_)
        bits(k) == IF k = 0 THEN 0 ELSE 1 + bits(k \div 2)
    IN  IF a = <<>> THEN 0 ELSE LimbBits * (Len(a) - 1) + bits(a[Len(a)])

BLess(a, b) ==
    LET RECURSIVE less(_, _, _)
        less(x, y, i) ==
            IF i = 0 THEN FALSE
            ELSE IF x[i] # y[i] THEN x[i] < y[i]
            ELSE less(x, y, i - 1)
    IN  IF Len(a) # Len(b) THEN Len(a) < Len(b) ELSE less(a, b, Len(a))

\* the binary64 value nearest to n * 2^e (sticky: n was truncated from a larger value)
\* half = <<floor(n / 2^(s-1)), inexact>>, q = floor(n / 2^s): up when the guard
\* bit is set and either a lower bit is or q is odd
RoundNearestEven(half, q, e, sticky) ==
    [m |-> IF half[1][1] % 2 = 1 /\ (half[2] \/ sticky \/ q[1] % 2 = 1)
           THEN BAdd(q, <<1>>) ELSE q,
     e |-> e]

RoundHalf(half, e, sticky) == RoundNearestEven(half, BShr(half[1], 1)[1], e, sticky)

RoundBits(n, e, sticky, len) ==
    IF len <= MantissaBits THEN [m |-> n, e |-> e]
    ELSE RoundHalf(BShr(n, len - MantissaBits - 1), e + (len - MantissaBits), sticky)

RoundToDouble(n, e, sticky) == RoundBits(n, e, sticky, BitLen(n))

DInt(n) == [m |-> BFromInt(n), e |-> 0]

\* x + y for x.e <= y.e
AddAligned(x, y) == RoundToDouble(BAdd(x.m, BShl(y.m, y.e - x.e)), x.e, FALSE)

DAdd(x, y) == IF x.e <= y.e THEN AddAligned(x, y) ELSE AddAligned(y, x)

DMul(x, y) ==
    IF x.m = <<>> \/ y.m = <<>> THEN DInt(0)
    ELSE RoundToDouble(BMul(x.m, y.m), x.e + y.e, FALSE)

\* x / d for an integer-valued divisor d
RoundQuotient(q, e) == RoundToDouble(q[1], e, q[2] # 0)

DDivInt(x, d) ==
    IF x.m = <<>> THEN DInt(0)
    ELSE RoundQuotient(BDivSmall(BShl(x.m, DivGuardBits), d), x.e - DivGuardBits)

DLess(x, y) ==
    IF x.e <= y.e THEN BLess(BNorm(x.m), BShl(y.m, y.e - x.e))
    ELSE BLess(BShl(x.m, x.e - y.e), BNorm(y.m))

DMin(x, y) == IF DLess(y, x) THEN y ELSE x

\* Math.round of a non-negative number: the nearest integer, ties upwards
MathRound(x) ==
    IF x.e >= 0 THEN BToInt(BShl(x.m, x.e))
    ELSE (BToInt(BShr(x.m, (0 - x.e) - 1)[1]) + 1) \div 2

(***************************************************************************)
(* Risk scoring (scanService.ts).  A finding is the record pushed by       *)
(* scanContentForPhi.                                                      *)
(***************************************************************************)
RiskLevels == {"LOW", "MEDIUM", "HIGH", "CRITICAL"}

getSeverityScore(severity) ==
    CASE severity = "CRITICAL" -> 100
      [] severity = "HIGH"     -> 75
      [] severity = "MEDIUM"   -> 50
      [] severity = "LOW"      -> 25
      [] OTHER                 -> 0

\* what one pass of the loop adds to weightedSum
ScoreTerm(finding) ==
    LET severityWeight == DDivInt(DInt(getSeverityScore(finding.severity)), 100)
        countWeight    == DMin(DDivInt(DInt(finding.occurrences), 10), DInt(1))
    IN  DMul(severityWeight, DAdd(DInt(1), countWeight))

\* weightedSum after the first k passes of the loop
RECURSIVE WeightedSum(_, _)
WeightedSum(findings, k) ==
    IF k = 0 THEN DInt(0)
    ELSE DAdd(WeightedSum(findings, k - 1), ScoreTerm(findings[k]))

Min(a, b) == IF a < b THEN a ELSE b

\* a score without the cap at 100
calculateRiskScoreUncapped(phiCount, findings) ==
    IF phiCount = 0 THEN 0
    ELSE MathRound(DAdd(DMul(DDivInt(WeightedSum(findings, Len(findings)), Len(findings)),
                             DInt(100)),
                        DInt(Min(phiCount * 2, 20))))

calculateRiskScore(phiCount, findings) ==
    IF phiCount = 0 THEN 0
    ELSE LET weightedSum == WeightedSum(findings, Len(findings))
             totalWeight == Len(findings)
             baseScore   == IF totalWeight > 0
                            THEN DMul(DDivInt(weightedSum, totalWeight), DInt(100))
                            ELSE DInt(0)
             countBonus  == Min(phiCount * 2, 20)
         IN  Min(MathRound(DAdd(baseScore, DInt(countBonus))), 100)

\* thresholds that exclude their own value
getRiskLevelAboveScore(score) ==
    IF score > 80 THEN "CRITICAL"
    ELSE IF score > 60 THEN "HIGH"
    ELSE IF score > 30 THEN "MEDIUM"
    ELSE "LOW"

getRiskLevelFromScore(score) ==
    IF score >= 80 THEN "CRITICAL"
    ELSE IF score >= 60 THEN "HIGH"
    ELSE IF score >= 30 THEN "MEDIUM"
    ELSE "LOW"

(***************************************************************************)
(* Text.  A JavaScript string is the sequence of its characters; a value   *)
(* that may be a string, null/undefined or something else (request bodies  *)
(* are cast without a check, scanRoutes.ts:28 and :96) is a tagged record. *)
(***************************************************************************)
JsNull == [kind |-> "null"]

JsStr(s) == [kind |-> "string", s |-> s]

JsNum(n) == [kind |-> "number", n |-> n]

JsUndefined == [kind |-> "undefined"]

Truthy(v) ==
    CASE v.kind = "null"   -> FALSE
      [] v.kind = "undefined" -> FALSE
      [] v.kind = "string" -> v.s # <<>>
      [] v.kind = "number" -> v.n # 0
      [] OTHER             -> TRUE

Digit == {"0", "1", "2", "3", "4", "5", "6", "7", "8", "9"}

LowerSeq == <<"a", "b", "c", "d", "e", "f", "g", "h", "i", "j", "k", "l", "m", "n", "o", "p", "q", "r", "s", "t", "u", "v", "w", "x", "y", "z">>

UpperSeq == <<"A", "B", "C", "D", "E", "F", "G", "H", "I", "J", "K", "L", "M", "N", "O", "P", "Q", "R", "S", "T", "U", "V", "W", "X", "Y", "Z">>

Lower == {LowerSeq[i] : i \in 1..Len(LowerSeq)}

Upper == {UpperSeq[i] : i \in 1..Len(UpperSeq)}

WordChar == Digit \cup Lower \cup Upper \cup {"_"}

Space == {" ", "\n", "\t"}

AlphaIndex(c, alphabet) == CHOOSE i \in 1..Len(alphabet) : alphabet[i] = c

toLowerCaseChar(c) == IF c \in Upper THEN LowerSeq[AlphaIndex(c, UpperSeq)] ELSE c

toUpperCaseChar(c) == IF c \in Lower THEN UpperSeq[AlphaIndex(c, LowerSeq)] ELSE c

toLowerCase(s) == [i \in 1..Len(s) |-> toLowerCaseChar(s[i])]

\* String.prototype.indexOf, 1-based; 0 when needle does not occur
indexOf(s, needle) ==
    LET hits == {i \in 1..(Len(s) - Len(needle) + 1) :
                    SubSeq(s, i, i + Len(needle) - 1) = needle}
    IN  IF hits = {} THEN 0 ELSE CHOOSE i \in hits : \A j \in hits : i <= j

includes(s, needle) == indexOf(s, needle) # 0

(***************************************************************************)
(* Regular expressions, with the backtracking semantics of the JavaScript  *)
(* engine: Ends(node, text, i) lists the positions at which a match of     *)
(* node starting at i can end, in the order the engine tries them.         *)
(***************************************************************************)
ReSet(s) == [t |-> "set", s |-> s]

ReSeq(a) == [t |-> "seq", a |-> a]

ReAlt(a) == [t |-> "alt", a |-> a]

\* greedy r{min,max}; max = -1 is unbounded
ReRep(r, min, max) == [t |-> "rep", r |-> r, min |-> min, max |-> max]

ReOpt(r) == ReRep(r, 0, 1)

ReStar(r) == ReRep(r, 0, -1)

RePlus(r) == ReRep(r, 1, -1)

ReWordBoundary == [t |-> "wb"]

ReLit(s) == ReSeq([i \in 1..Len(s) |-> ReSet({s[i]})])

\* a literal under the i flag
ReLitI(s) == ReSeq([i \in 1..Len(s) |-> ReSet({toLowerCaseChar(s[i]), toUpperCaseChar(s[i])})])

IsWordAt(text, i) == i >= 1 /\ i <= Len(text) /\ text[i] \in WordChar

RECURSIVE Ends(_, _, _), EndsSeq(_, _, _), EndsAlt(_, _, _), EndsRep(_, _, _, _),
          EndsThen(_, _, _), EndsMore(_, _, _, _)
Ends(node, text, i) ==
    CASE node.t = "set" -> IF i <= Len(text) /\ text[i] \in node.s THEN <<i + 1>> ELSE <<>>
      [] node.t = "wb"  -> IF IsWordAt(text, i - 1) # IsWordAt(text, i) THEN <<i>> ELSE <<>>
      [] node.t = "seq" -> EndsSeq(node.a, text, i)
      [] node.t = "alt" -> EndsAlt(node.a, text, i)
      [] node.t = "rep" -> EndsRep(node, text, i, 0)

EndsSeq(nodes, text, i) ==
    IF nodes = <<>> THEN <<i>>
    ELSE EndsThen(Tail(nodes), text, Ends(Head(nodes), text, i))

\* the rest of a sequence, tried from each end of its first node in turn
EndsThen(nodes, text, starts) ==
    IF starts = <<>> THEN <<>>
    ELSE EndsSeq(nodes, text, Head(starts)) \o EndsThen(nodes, text, Tail(starts))

EndsAlt(nodes, text, i) ==
    IF nodes = <<>> THEN <<>>
    ELSE Ends(Head(nodes), text, i) \o EndsAlt(Tail(nodes), text, i)

EndsRep(node, text, i, count) ==
    (IF node.max < 0 \/ count < node.max
     THEN EndsMore(node, text, SelectSeq(Ends(node.r, text, i), LAMBDA e : e > i), count + 1)
     ELSE <<>>)
    \o (IF count >= node.min THEN <<i>> ELSE <<>>)

EndsMore(node, text, starts, count) ==
    IF starts = <<>> THEN <<>>
    ELSE EndsRep(node, text, Head(starts), count) \o EndsMore(node, text, Tail(starts), count)

\* String.prototype.match with a global pattern: the matched strings, left to
\* right and non-overlapping (<<>> stands for null)
FirstOrZero(ends) == IF ends = <<>> THEN 0 ELSE Head(ends)

\* where the match the engine finds at each start position ends (0: no match)
FirstEnds(text, pattern) == [i \in 1..Len(text) |-> FirstOrZero(Ends(pattern, text, i))]

\* the matches from lastIndex on; an empty match advances lastIndex by one
RECURSIVE MatchFrom(_, _, _)
MatchFrom(text, firstEnd, lastIndex) ==
    LET starts == {i \in lastIndex..Len(text) : firstEnd[i] # 0}
    IN  IF starts = {} THEN <<>>
        ELSE LET i == CHOOSE j \in starts : \A k \in starts : j <= k
             IN  <<SubSeq(text, i, firstEnd[i] - 1)>>
                 \o MatchFrom(text, firstEnd, IF firstEnd[i] > i THEN firstEnd[i] ELSE i + 1)

match(text, pattern) == MatchFrom(text, FirstEnds(text, pattern), 1)

(***************************************************************************)
(* PHI_PATTERNS (scanService.ts:39-106), in registry order.                *)
(***************************************************************************)
ReDigit == ReSet(Digit)

ReLetterI == ReSet(Lower \cup Upper)

ReWord == ReSet(WordChar)

PHI_PATTERNS == <<
    [type |-> "SSN", severity |-> "CRITICAL",
     pattern |-> ReSeq(<<ReWordBoundary, ReRep(ReDigit, 3, 3), ReOpt(ReSet({"-"} \cup Space)),
                         ReRep(ReDigit, 2, 2), ReOpt(ReSet({"-"} \cup Space)),
                         ReRep(ReDigit, 4, 4), ReWordBoundary>>)],
    [type |-> "MRN", severity |-> "HIGH",
     pattern |-> ReSeq(<<ReWordBoundary,
                         ReAlt(<<ReLitI(<<"m", "r", "n">>), ReLitI(<<"m", "e", "d", "i", "c", "a", "l", " ", "r", "e", "c", "o", "r", "d">>)>>),
                         ReStar(ReSet(Space \cup {":", "#"})), ReRep(ReDigit, 6, 10),
                         ReWordBoundary>>)],
    [type |-> "DOB", severity |-> "HIGH",
     pattern |-> ReSeq(<<ReWordBoundary,
                         ReAlt(<<ReLitI(<<"d", "o", "b">>), ReLitI(<<"d", "a", "t", "e", " ", "o", "f", " ", "b", "i", "r", "t", "h">>),
                                 ReLitI(<<"b", "o", "r", "n">>)>>),
                         ReStar(ReSet(Space \cup {":"})), ReRep(ReDigit, 1, 2),
                         ReSet({"/", "-"}), ReRep(ReDigit, 1, 2), ReSet({"/", "-"}),
                         ReRep(ReDigit, 2, 4), ReWordBoundary>>)],
    [type |-> "PHONE", severity |-> "MEDIUM",
     pattern |-> ReSeq(<<ReWordBoundary,
                         ReOpt(ReSeq(<<ReLit(<<"+", "1">>), ReOpt(ReSet(Space \cup {"-"}))>>)),
                         ReOpt(ReSeq(<<ReOpt(ReSet({"("})), ReRep(ReDigit, 3, 3),
                                       ReOpt(ReSet({")"})), ReOpt(ReSet(Space \cup {".", "-"}))>>)),
                         ReRep(ReDigit, 3, 3), ReOpt(ReSet(Space \cup {".", "-"})),
                         ReRep(ReDigit, 4, 4), ReWordBoundary>>)],
    [type |-> "EMAIL", severity |-> "MEDIUM",
     pattern |-> ReSeq(<<ReWordBoundary,
                         RePlus(ReSet(Lower \cup Upper \cup Digit \cup {".", "_", "%", "+", "-"})),
                         ReSet({"@"}),
                         RePlus(ReSet(Lower \cup Upper \cup Digit \cup {".", "-"})),
                         ReSet({"."}), ReRep(ReSet(Lower \cup Upper \cup {"|"}), 2, -1),
                         ReWordBoundary>>)],
    [type |-> "DIAGNOSIS", severity |-> "CRITICAL",
     pattern |-> ReSeq(<<ReWordBoundary,
                         ReAlt(<<ReLitI(<<"d", "i", "a", "g", "n", "o", "s", "i", "s">>),
                                 ReLitI(<<"d", "i", "a", "g", "n", "o", "s", "e", "d", " ", "w", "i", "t", "h">>),
                                 ReSeq(<<ReLitI(<<"i", "c", "d">>), ReOpt(ReSet({"-"})),
                                         ReSet({"1"}), ReOpt(ReSet({"0"}))>>)>>),
                         RePlus(ReSet(Space \cup {":"})), ReLetterI, ReRep(ReDigit, 2, 2),
                         ReOpt(ReSeq(<<ReSet({"."}), ReRep(ReDigit, 1, 2)>>)),
                         ReWordBoundary>>)],
    [type |-> "MEDICATION", severity |-> "HIGH",
     pattern |-> ReSeq(<<ReWordBoundary,
                         ReAlt(<<ReLitI(<<"p", "r", "e", "s", "c", "r", "i", "b", "e", "d">>),
                                 ReLitI(<<"m", "e", "d", "i", "c", "a", "t", "i", "o", "n">>),
                                 ReLitI(<<"t", "a", "k", "i", "n", "g">>), ReLitI(<<"r", "x">>)>>),
                         RePlus(ReSet(Space \cup {":"})), RePlus(ReWord), RePlus(ReSet(Space)),
                         RePlus(ReDigit), ReStar(ReSet(Space)),
                         ReAlt(<<ReLitI(<<"m", "g">>), ReLitI(<<"m", "l">>),
                                 ReLitI(<<"m", "c", "g">>)>>),
                         ReWordBoundary>>)],
    [type |-> "INSURANCE_ID", severity |-> "HIGH",
     pattern |-> ReSeq(<<ReWordBoundary,
                         ReAlt(<<ReLitI(<<"m", "e", "m", "b", "e", "r">>), ReLitI(<<"i", "n", "s", "u", "r", "a", "n", "c", "e">>),
                                 ReLitI(<<"p", "o", "l", "i", "c", "y">>)>>),
                         ReStar(ReSet(Space \cup {"#", ":"})), ReRep(ReLetterI, 2, 3),
                         ReRep(ReDigit, 8, 12), ReWordBoundary>>)],
    [type |-> "CREDIT_CARD", severity |-> "CRITICAL",
     pattern |-> ReSeq(<<ReWordBoundary,
                         ReAlt(<<ReSeq(<<ReSet({"4"}), ReRep(ReDigit, 12, 12),
                                         ReOpt(ReRep(ReDigit, 3, 3))>>),
                                 ReSeq(<<ReSet({"5"}), ReSet({"1", "2", "3", "4", "5"}),
                                         ReRep(ReDigit, 14, 14)>>),
                                 ReSeq(<<ReSet({"3"}), ReSet({"4", "7"}),
                                         ReRep(ReDigit, 13, 13)>>)>>),
                         ReWordBoundary>>)],
    [type |-> "ADDRESS", severity |-> "MEDIUM",
     pattern |-> ReSeq(<<ReWordBoundary, ReRep(ReDigit, 1, 5), RePlus(ReSet(Space)),
                         RePlus(ReWord), RePlus(ReSet(Space)),
                         ReAlt(<<ReLitI(<<"s", "t", "r", "e", "e", "t">>), ReLitI(<<"s", "t">>),
                                 ReLitI(<<"a", "v", "e", "n", "u", "e">>), ReLitI(<<"a", "v", "e">>),
                                 ReLitI(<<"r", "o", "a", "d">>), ReLitI(<<"r", "d">>),
                                 ReLitI(<<"b", "o", "u", "l", "e", "v", "a", "r", "d">>), ReLitI(<<"b", "l", "v", "d">>),
                                 ReLitI(<<"d", "r", "i", "v", "e">>), ReLitI(<<"d", "r">>),
                                 ReLitI(<<"l", "a", "n", "e">>), ReLitI(<<"l", "n">>),
                                 ReLitI(<<"c", "o", "u", "r", "t">>), ReLitI(<<"c", "t">>)>>),
                         ReWordBoundary>>)],
    [type |-> "NAME", severity |-> "HIGH",
     pattern |-> ReSeq(<<ReWordBoundary,
                         ReAlt(<<ReLitI(<<"p", "a", "t", "i", "e", "n", "t">>), ReLitI(<<"n", "a", "m", "e">>),
                                 ReLitI(<<"m", "r", ".">>), ReLitI(<<"m", "r", "s", ".">>),
                                 ReLitI(<<"m", "s", ".">>), ReLitI(<<"d", "r", ".">>)>>),
                         RePlus(ReSet(Space \cup {":"})), ReLetterI, RePlus(ReLetterI),
                         RePlus(ReSet(Space)), ReLetterI, RePlus(ReLetterI),
                         ReWordBoundary>>)]
>>

(***************************************************************************)
(* generateMockContent (scanService.ts:193-222)                            *)
(***************************************************************************)
PatientMockContent ==
    <<"\n", " ", " ", " ", " ", " ", " ", "P", "a", "t", "i", "e", "n",
      "t", ":", " ", "J", "o", "h", "n", " ", "S", "m", "i", "t", "h",
      "\n", " ", " ", " ", " ", " ", " ", "D", "O", "B", ":", " ", "0",
      "3", "/", "1", "5", "/", "1", "9", "8", "5", "\n", " ", " ", " ",
      " ", " ", " ", "M", "R", "N", ":", " ", "1", "2", "3", "4", "5", "6",
      "7", "8", "9", "\n", " ", " ", " ", " ", " ", " ", "S", "S", "N",
      ":", " ", "1", "2", "3", "-", "4", "5", "-", "6", "7", "8", "9",
      "\n", " ", " ", " ", " ", " ", " ", "D", "i", "a", "g", "n", "o",
      "s", "i", "s", ":", " ", "I", "C", "D", "-", "1", "0", " ", "J", "0",
      "6", ".", "9", "\n", " ", " ", " ", " ", " ", " ", "M", "e", "d",
      "i", "c", "a", "t", "i", "o", "n", ":", " ", "p", "r", "e", "s", "c",
      "r", "i", "b", "e", "d", " ", "A", "m", "o", "x", "i", "c", "i", "l",
      "l", "i", "n", " ", "5", "0", "0", " ", "m", "g", "\n", " ", " ",
      " ", " ", " ", " ", "A", "d", "d", "r", "e", "s", "s", ":", " ", "1",
      "2", "3", " ", "M", "a", "i", "n", " ", "S", "t", "r", "e", "e", "t",
      "\n", " ", " ", " ", " ", " ", " ", "P", "h", "o", "n", "e", ":",
      " ", "(", "5", "5", "5", ")", " ", "1", "2", "3", "-", "4", "5", "6",
      "7", "\n", " ", " ", " ", " ", " ", " ", "E", "m", "a", "i", "l",
      ":", " ", "j", "o", "h", "n", ".", "s", "m", "i", "t", "h", "@", "e",
      "m", "a", "i", "l", ".", "c", "o", "m", "\n", " ", " ", " ", " ">>

BillingMockContent ==
    <<"\n", " ", " ", " ", " ", " ", " ", "I", "n", "s", "u", "r", "a",
      "n", "c", "e", " ", "I", "D", ":", " ", "A", "B", "C", "1", "2", "3",
      "4", "5", "6", "7", "8", "\n", " ", " ", " ", " ", " ", " ", "M",
      "e", "m", "b", "e", "r", " ", "I", "D", ":", " ", "X", "Y", "Z", "9",
      "8", "7", "6", "5", "4", "3", "2", "1", "\n", " ", " ", " ", " ",
      " ", " ", "C", "r", "e", "d", "i", "t", " ", "C", "a", "r", "d", ":",
      " ", "4", "1", "1", "1", "1", "1", "1", "1", "1", "1", "1", "1", "1",
      "1", "1", "1", "\n", " ", " ", " ", " ", " ", " ", "A", "d", "d",
      "r", "e", "s", "s", ":", " ", "4", "5", "6", " ", "O", "a", "k", " ",
      "A", "v", "e", "n", "u", "e", "\n", " ", " ", " ", " ", " ", " ",
      "P", "h", "o", "n", "e", ":", " ", "5", "5", "5", "-", "9", "8", "7",
      "-", "6", "5", "4", "3", "\n", " ", " ", " ", " ">>

DefaultMockPrefix == <<"D", "o", "c", "u", "m", "e", "n", "t", ":", " ">>

DefaultMockSuffix ==
    <<"\n", "C", "r", "e", "a", "t", "e", "d", " ", "f", "o", "r", " ",
      "s", "c", "a", "n", "n", "i", "n", "g", " ", "d", "e", "m", "o", ".">>

MockContentFor(fileName, lowerName) ==
    IF includes(lowerName, <<"p", "a", "t", "i", "e", "n", "t">>)
       \/ includes(lowerName, <<"m", "e", "d", "i", "c", "a", "l">>)
    THEN PatientMockContent
    ELSE IF includes(lowerName, <<"b", "i", "l", "l", "i", "n", "g">>)
            \/ includes(lowerName, <<"i", "n", "v", "o", "i", "c", "e">>)
    THEN BillingMockContent
    ELSE DefaultMockPrefix \o fileName \o DefaultMockSuffix

\* fileName.toLowerCase() throws a TypeError when fileName is not a string
generateMockContent(fileName) ==
    IF fileName.kind # "string" THEN [threw |-> TRUE, error |-> "TypeError"]
    ELSE [threw |-> FALSE, value |-> MockContentFor(fileName.s, toLowerCase(fileName.s))]

(***************************************************************************)
(* scanContentForPhi (scanService.ts:136-187) and its helpers              *)
(***************************************************************************)
NoNumber == 0 - 1

\* a mask one character short
maskSensitiveDataShort(value, phiType) ==
    IF Len(value) <= 4 THEN <<"*", "*", "*", "*">>
    ELSE SubSeq(value, 1, 2) \o [i \in 1..(Len(value) - 5) |-> "*"]
         \o SubSeq(value, Len(value) - 1, Len(value))

maskSensitiveData(value, phiType) ==
    IF Len(value) <= 4 THEN <<"*", "*", "*", "*">>
    ELSE SubSeq(value, 1, 2) \o [i \in 1..(Len(value) - 4) |-> "*"]
         \o SubSeq(value, Len(value) - 1, Len(value))

\* substring(0, matchIndex).split('\n').length
LineOf(text, index) == 1 + Cardinality({i \in 1..(index - 1) : text[i] = "\n"})

\* a finding whose sample is the matched value itself
PatternFindingUnmasked(pattern, textToScan, occurrences, firstMatch, matchIndex) ==
    [phiType         |-> pattern.type,
     severity        |-> pattern.severity,
     occurrences     |-> occurrences,
     sampleSnippet   |-> firstMatch,
     lineNumber      |-> IF matchIndex >= 1 THEN LineOf(textToScan, matchIndex) ELSE NoNumber,
     confidenceScore |-> "0.85"]

\* one pass of the loop over PHI_PATTERNS: acc = [findings, totalPhiCount]
\* the finding pushed for a pattern that matched
PatternFinding(pattern, textToScan, occurrences, firstMatch, matchIndex) ==
    [phiType         |-> pattern.type,
     severity        |-> pattern.severity,
     occurrences     |-> occurrences,
     sampleSnippet   |-> maskSensitiveData(firstMatch, pattern.type),
     lineNumber      |-> IF matchIndex >= 1 THEN LineOf(textToScan, matchIndex) ELSE NoNumber,
     confidenceScore |-> "0.85"]

\* a pass that counts a pattern once however often it matches
ScanMatchesOnce(acc, pattern, textToScan, matches) ==
    IF matches # <<>>
    THEN [findings |-> Append(acc.findings,
              PatternFinding(pattern, textToScan, 1, matches[1],
                             indexOf(textToScan, matches[1]))),
          totalPhiCount |-> acc.totalPhiCount + 1]
    ELSE acc

ScanMatches(acc, pattern, textToScan, matches) ==
    IF matches # <<>>
    THEN [findings |-> Append(acc.findings,
              PatternFinding(pattern, textToScan, Len(matches), matches[1],
                             indexOf(textToScan, matches[1]))),
          totalPhiCount |-> acc.totalPhiCount + Len(matches)]
    ELSE acc

ScanPattern(acc, pattern, textToScan) ==
    ScanMatches(acc, pattern, textToScan, match(textToScan, pattern.pattern))

RECURSIVE ScanPatterns(_, _, _)
ScanPatterns(acc, patterns, textToScan) ==
    IF patterns = <<>> THEN acc
    ELSE ScanPatterns(ScanPattern(acc, Head(patterns), textToScan), Tail(patterns), textToScan)

\* a scanner that always reads the text synthesized from the file name
TextToScanByName(content, fileName) == generateMockContent(fileName)

\* const textToScan = content || generateMockContent(fileName); a truthy content
\* that is not a string has no match method, and the call throws a TypeError
TextToScan(content, fileName) ==
    IF Truthy(content)
    THEN IF content.kind = "string" THEN [threw |-> FALSE, value |-> content.s]
         ELSE [threw |-> TRUE, error |-> "TypeError"]
    ELSE generateMockContent(fileName)

PhiScanResult(acc, riskScore) ==
    [threw     |-> FALSE,
     riskScore |-> riskScore,
     riskLevel |-> getRiskLevelFromScore(riskScore),
     phiCount  |-> acc.totalPhiCount,
     findings  |-> acc.findings]

ScoreFindings(acc) == PhiScanResult(acc, calculateRiskScore(acc.totalPhiCount, acc.findings))

ScanText(textToScan) ==
    IF textToScan.threw THEN textToScan
    ELSE ScoreFindings(ScanPatterns([findings |-> <<>>, totalPhiCount |-> 0],
                                    PHI_PATTERNS, textToScan.value))

\* a scanner whose count goes on from the files already stored
scanContentForPhiCounting(content, fileName) ==
    IF TextToScan(content, fileName).threw THEN TextToScan(content, fileName)
    ELSE ScoreFindings(ScanPatterns([findings |-> <<>>, totalPhiCount |-> Cardinality(scanned_files)],
                                    PHI_PATTERNS, TextToScan(content, fileName).value))

scanContentForPhi(content, fileName) == ScanText(TextToScan(content, fileName))

(***************************************************************************)
(* Folder aggregation (scanService.ts:774-821)                             *)
(***************************************************************************)
\* String.prototype.lastIndexOf('/'), 1-based; 0 when there is none
LastSlash(s) ==
    LET hits == {i \in 1..Len(s) : s[i] = "/"}
    IN  IF hits = {} THEN 0 ELSE CHOOSE i \in hits : \A j \in hits : j <= i

\* rootPath || '/'
RootOrSlash(rootPath) == IF Truthy(rootPath) THEN rootPath.s ELSE <<"/">>

\* split('/'), pop(), join('/') keeps what precedes the last '/'
getParentFolder(filePath, rootPath) ==
    IF LastSlash(filePath) = 0 THEN RootOrSlash(rootPath)
    ELSE IF LastSlash(filePath) = 1 THEN RootOrSlash(rootPath)
    ELSE SubSeq(filePath, 1, LastSlash(filePath) - 1)

\* a running maximum that keeps the level seen last
LatestRiskLevel(riskLevel, maxRiskLevel) == riskLevel

\* if (getSeverityScore(riskLevel) > getSeverityScore(maxRiskLevel)) maxRiskLevel = riskLevel
HigherRiskLevel(riskLevel, maxRiskLevel) ==
    IF getSeverityScore(riskLevel) > getSeverityScore(maxRiskLevel) THEN riskLevel
    ELSE maxRiskLevel

\* the sum of the scores in place of their mean
TotalAsAverage(totalRiskScore, count) == totalRiskScore

\* a mean that is cut off instead of rounded
AverageRiskScoreFloor(totalRiskScore, count) ==
    IF count > 0 THEN totalRiskScore \div count ELSE 0

\* count > 0 ? Math.round(totalRiskScore / count) : 0
AverageRiskScore(totalRiskScore, count) ==
    IF count > 0 THEN MathRound(DDivInt(DInt(totalRiskScore), count)) ELSE 0

\* an entry that counts one PHI item for each file
AddFileCountingFiles(agg, file) ==
    [agg EXCEPT
       !.files = Append(@, file),
       !.totalPhiCount = @ + 1,
       !.totalRiskScore = @ + (IF file.risk_score = NoNumber THEN 0 ELSE file.risk_score),
       !.maxRiskLevel = IF file.risk_level # "NULL" THEN HigherRiskLevel(file.risk_level, @)
                        ELSE @]

\* the entry of a folder after one more of its files
AddFile(agg, file) ==
    [agg EXCEPT
       !.files = Append(@, file),
       !.totalPhiCount = @ + file.phi_count,
       !.totalRiskScore = @ + (IF file.risk_score = NoNumber THEN 0 ELSE file.risk_score),
       !.maxRiskLevel = IF file.risk_level # "NULL" THEN HigherRiskLevel(file.risk_level, @)
                        ELSE @]

\* file.file_path || file.file_name
FolderKeySource(file) == IF Truthy(file.file_path) THEN file.file_path ELSE file.file_name

\* the Map after the loop over the first k files: a sequence of entries in
\* insertion order
RECURSIVE FolderMap(_, _, _)
FolderMap(files, rootPath, k) ==
    IF k = 0 THEN <<>>
    ELSE LET before     == FolderMap(files, rootPath, k - 1)
             file       == files[k]
             folderPath == getParentFolder(FolderKeySource(file).s, rootPath)
             known      == {j \in 1..Len(before) : before[j].folderPath = folderPath}
             j          == IF known = {} THEN Len(before) + 1 ELSE CHOOSE n \in known : TRUE
             agg        == IF known = {}
                           THEN [folderPath |-> folderPath, files |-> <<>>, totalPhiCount |-> 0,
                                 totalRiskScore |-> 0, maxRiskLevel |-> "LOW"]
                           ELSE before[j]
             updated    == AddFile(agg, file)
         IN  IF known = {} THEN Append(before, updated) ELSE [before EXCEPT ![j] = updated]

computeFolderAggregates(files, rootPath) ==
    IF \E k \in 1..Len(files) : FolderKeySource(files[k]).kind # "string"
    THEN [threw |-> TRUE, error |-> "TypeError"]
    ELSE LET folderMap == FolderMap(files, rootPath, Len(files))
         IN  [threw |-> FALSE,
              value |-> [n \in 1..Len(folderMap) |->
                  [folderPath    |-> folderMap[n].folderPath,
                   totalFiles    |-> Len(folderMap[n].files),
                   totalPhiCount |-> folderMap[n].totalPhiCount,
                   avgRiskScore  |-> AverageRiskScore(folderMap[n].totalRiskScore,
                                                      Len(folderMap[n].files)),
                   maxRiskLevel  |-> folderMap[n].maxRiskLevel]]]

(***************************************************************************)
(* Requests.  The bodies POST /file and POST /folder may receive: every    *)
(* identifying field present or missing, and files taken from a small set  *)
(* of descriptors that covers every risk level, content given and absent,  *)
(* a content that is not a string, and a file without a name.              *)
(***************************************************************************)
MaxFiles == 2

OrgId == JsStr(<<"o", "r", "g", "1">>)

RootPath == JsStr(<<"S", "h", "a", "r", "e", "d">>)

SourceType == JsStr(<<"s", "3">>)

FileObject(fileName, filePath, content) ==
    [kind |-> "object", fileName |-> fileName, filePath |-> filePath, content |-> content]

\* no content, a name with a trigger keyword: the PHI-dense mock text, CRITICAL
PatientFile == FileObject(JsStr(<<"p", "a", "t", "i", "e", "n", "t", ".", "t", "x", "t">>),
                          JsStr(<<"d", "o", "c", "s", "/", "p", "a", "t", "i", "e", "n", "t", ".", "t", "x", "t">>), JsNull)

\* one phone number: MEDIUM
PhoneFile == FileObject(JsStr(<<"c", "a", "l", "l", ".", "t", "x", "t">>), JsNull,
                        JsStr(<<"c", "a", "l", "l", " ", "5", "5", "5", "-", "1", "2", "3", "4">>))

\* one phone number and two e-mail addresses: HIGH
MailFile == FileObject(JsStr(<<"m", "a", "i", "l", ".", "t", "x", "t">>), JsStr(<<"d", "o", "c", "s", "/", "m", "a", "i", "l", ".", "t", "x", "t">>),
                       JsStr(<<"5", "5", "5", "-", "1", "2", "3", "4", " ", "a", "@", "b", ".", "c", "o", " ", "c", "@", "d", ".", "c", "o">>))

\* no content, no trigger keyword: the placeholder text, LOW
NotesFile == FileObject(JsStr(<<"n", "o", "t", "e", "s", ".", "t", "x", "t">>), JsStr(<<"m", "i", "s", "c", "/", "n", "o", "t", "e", "s", ".", "t", "x", "t">>), JsNull)

\* a content that is not a string
MalformedFile == FileObject(JsStr(<<"s", "c", "a", "n", ".", "b", "i", "n">>), JsNull, JsNum(12345))

\* a file without a name, with and without content
NamelessFile == FileObject(JsNull, JsNull, JsNull)

NamelessTextFile == FileObject(JsNull, JsNull, JsStr(<<"S", "S", "N", ":", " ", "1", "2", "3", "-", "4", "5", "-", "6", "7", "8", "9">>))

FileInputs == {PatientFile, PhoneFile, MailFile, NotesFile, MalformedFile,
               NamelessFile, NamelessTextFile}

FileLists == UNION {[1..n -> FileInputs] : n \in 0..MaxFiles}

FileScanBodies ==
    [type : {"file"}, orgId : {OrgId, JsNull}, file : FileInputs \cup {JsNull}]

FolderScanBodies ==
    [type : {"folder"}, orgId : {OrgId, JsNull}, rootPath : {RootPath, JsNull},
     sourceType : {SourceType, JsNull}, files : FileLists]

(***************************************************************************)
(* The service.  Each call of a route handler is a process c; an await of  *)
(* a datastore call is one step, taken with the synchronous code that      *)
(* follows it up to the next await.  A datastore call either takes effect  *)
(* or returns an error and changes nothing.  uuidv4() is modelled by the   *)
(* call's number (scan id) and <<call, index>> (file id).  userId,         *)
(* sourceLabel, sizes, MIME types and timestamps are passed through and    *)
(* left out.                                                               *)
(***************************************************************************)
vars == <<pc, request, local, response, scans, scanned_files, phi_findings,
          folder_risks, alerts, alertCalls, findingsIn, scoreOut, contentIn, fileNameIn,
          textScanned, scanOut, valueIn, maskOut, filesIn, rootPathIn, aggregatesOut,
          totalsOut, file_fingerprints, duplicates>>

tables == <<scans, scanned_files, phi_findings, folder_risks, alerts>>

scoring == <<findingsIn, scoreOut>>

scanning == <<contentIn, fileNameIn, textScanned, scanOut>>

masking == <<valueIn, maskOut>>

aggregating == <<filesIn, rootPathIn, aggregatesOut, totalsOut>>

\* the variables of the steps studied on their own, and those of the lookup
functions == <<scoring, scanning, masking, aggregating, file_fingerprints, duplicates>>

\* the calls that can be made; a call that is "off" is never made
Calls == {1, 2}

NoRequest == [type |-> "none"]

NoResponse == [status |-> 0, body |-> [error |-> "none"]]

\* a function studied on its own, before it is called
NotCalled == [threw |-> TRUE, error |-> "not called"]

NoLocal ==
    [i |-> 0, phiResult |-> [threw |-> TRUE], computed |-> <<>>, scannedFiles |-> <<>>,
     phiFindings |-> {}, totalPhiCount |-> 0, totalRiskScore |-> 0, maxRiskLevel |-> "LOW",
     folderAggregates |-> <<>>, k |-> 0, folderRisks |-> <<>>, updatedScan |-> [id |-> 0]]

InitWith(pcs, requests, files, links) ==
    /\ pc = pcs
    /\ request = requests
    /\ local = [c \in Calls |-> NoLocal]
    /\ response = [c \in Calls |-> NoResponse]
    /\ scans = {}
    /\ scanned_files = files
    /\ file_fingerprints = links
    /\ duplicates = <<>>
    /\ phi_findings = {}
    /\ folder_risks = {}
    /\ alerts = {}
    /\ alertCalls = <<>>
    /\ findingsIn = <<>>
    /\ scoreOut = ScoreFindings([findings |-> <<>>, totalPhiCount |-> 0])
    /\ contentIn = JsUndefined
    /\ fileNameIn = JsUndefined
    /\ textScanned = NotCalled
    /\ scanOut = NotCalled
    /\ valueIn = <<>>
    /\ maskOut = <<>>
    /\ filesIn = <<>>
    /\ aggregatesOut = [threw |-> FALSE, value |-> <<>>]
    /\ totalsOut = [totalPhiCount |-> 0, totalRiskScore |-> 0, maxRiskLevel |-> "LOW"]

InitCalls(active) ==
    InitWith([c \in Calls |-> IF c \in active THEN "idle" ELSE "off"],
             [c \in Calls |-> NoRequest], {}, {})

\* one request, of either kind, against an empty datastore
Init == InitCalls({1}) /\ rootPathIn = RootPath

\* an alert condition that forgets HIGH
IsCriticalRisk(riskLevel) == riskLevel = "CRITICAL"

\* phiResult.riskLevel === 'HIGH' || phiResult.riskLevel === 'CRITICAL'
IsHighRisk(riskLevel) == riskLevel = "HIGH" \/ riskLevel = "CRITICAL"

\* value || null
OrNull(v) == IF Truthy(v) THEN v ELSE JsNull

\* the route's catch block: res.status(500).json({ error, message })
Rejected(c, error, message) ==
    /\ pc' = [pc EXCEPT ![c] = "done"]
    /\ response' = [response EXCEPT ![c] =
                       [status |-> 500, body |-> [error |-> error, message |-> message]]]

\* res.status(400).json({ error })
BadRequest(c, error) ==
    /\ pc' = [pc EXCEPT ![c] = "done"]
    /\ response' = [response EXCEPT ![c] = [status |-> 400, body |-> [error |-> error]]]

ScanRow(c) == CHOOSE row \in scans : row.id = c

\* a closing update that leaves the PHI count out
CompletedScanWithoutCount(row, riskScore, riskLevel, phiCount) ==
    [row EXCEPT !.status = "completed",
                !.overall_risk_score = riskScore,
                !.overall_risk_level = riskLevel]

\* .update({ status: 'completed', overall_risk_score, overall_risk_level,
\*           total_phi_count, completed_at })
CompletedScan(row, riskScore, riskLevel, phiCount) ==
    [row EXCEPT !.status = "completed",
                !.overall_risk_score = riskScore,
                !.overall_risk_level = riskLevel,
                !.total_phi_count = phiCount]

\* rows for the first finding of a file only
FindingRowsFirst(c, fileId, findings) ==
    {[file_id |-> fileId, scan_id |-> c, org_id |-> request[c].orgId,
      phi_type |-> findings[n].phiType, severity |-> findings[n].severity,
      occurrences |-> findings[n].occurrences, sample_snippet |-> findings[n].sampleSnippet,
      line_number |-> findings[n].lineNumber,
      confidence_score |-> findings[n].confidenceScore] : n \in {1} \cap DOMAIN findings}

FindingRows(c, fileId, findings) ==
    {[file_id |-> fileId, scan_id |-> c, org_id |-> request[c].orgId,
      phi_type |-> findings[n].phiType, severity |-> findings[n].severity,
      occurrences |-> findings[n].occurrences, sample_snippet |-> findings[n].sampleSnippet,
      line_number |-> findings[n].lineNumber,
      confidence_score |-> findings[n].confidenceScore] : n \in 1..Len(findings)}

AlertData(c, fileId, fileName, phiResult) ==
    [org_id |-> request[c].orgId, alert_type |-> "HIGH_FILE_RISK",
     severity |-> IF phiResult.riskLevel = "CRITICAL" THEN "CRITICAL" ELSE "HIGH",
     file_name |-> fileName, phi_count |-> phiResult.phiCount,
     risk_score |-> phiResult.riskScore,
     related_scan_id |-> c, related_file_id |-> fileId, is_resolved |-> FALSE]

(***************************************************************************)
(* POST /api/scans/file and scanService.createFileScan                     *)
(***************************************************************************)
PostFile(c) ==
    /\ pc[c] = "idle"
    /\ \E body \in FileScanBodies :
        /\ request' = [request EXCEPT ![c] = body]
        /\ IF ~Truthy(body.orgId) THEN BadRequest(c, "orgId is required")
           ELSE IF body.file.kind = "null" \/ ~Truthy(body.file.fileName)
           THEN BadRequest(c, "file.fileName is required")
           ELSE /\ pc' = [pc EXCEPT ![c] = "file_insert_scan"]
                /\ UNCHANGED response
    /\ UNCHANGED <<local, tables, alertCalls, functions>>

\* the scan record createFileScan inserts
FileScanInsert(c) ==
    [id |-> c, org_id |-> request[c].orgId, scan_type |-> "file",
     source_type |-> JsNull, root_path |-> JsNull, status |-> "running",
     overall_risk_score |-> NoNumber, overall_risk_level |-> "NULL",
     total_files |-> 1, total_phi_count |-> 0]

FileInsertScan(c) ==
    /\ pc[c] = "file_insert_scan"
    /\ \/ /\ scans' = scans \cup {FileScanInsert(c)}
          /\ pc' = [pc EXCEPT ![c] = "file_insert_file"]
          /\ UNCHANGED response
       \/ /\ Rejected(c, "Failed to create file scan", "Failed to create scan")
          /\ UNCHANGED scans
    /\ UNCHANGED <<request, local, scanned_files, phi_findings, folder_risks, alerts,
                   alertCalls, functions>>

FileInsertFile(c) ==
    /\ pc[c] = "file_insert_file"
    /\ \/ LET file      == request[c].file
              phiResult == scanContentForPhi(file.content, file.fileName)
          IN  /\ scanned_files' = scanned_files \cup
                    {[id |-> <<c, 1>>, scan_id |-> c, org_id |-> request[c].orgId,
                      file_name |-> file.fileName, file_path |-> OrNull(file.filePath),
                      risk_score |-> NoNumber, risk_level |-> "NULL", phi_count |-> 0]}
              /\ IF phiResult.threw
                 THEN /\ Rejected(c, "Failed to create file scan", phiResult.error)
                      /\ UNCHANGED local
                 ELSE /\ local' = [local EXCEPT ![c].phiResult = phiResult,
                                                ![c].computed = <<phiResult>>]
                      /\ pc' = [pc EXCEPT ![c] = IF Len(phiResult.findings) > 0
                                                 THEN "file_insert_findings"
                                                 ELSE "file_update_file"]
                      /\ UNCHANGED response
       \/ /\ Rejected(c, "Failed to create file scan", "Failed to create scanned file")
          /\ UNCHANGED <<scanned_files, local>>
    /\ UNCHANGED <<request, scans, phi_findings, folder_risks, alerts, alertCalls, functions>>

FileInsertFindings(c) ==
    /\ pc[c] = "file_insert_findings"
    /\ \/ LET rows == FindingRows(c, <<c, 1>>, local[c].phiResult.findings)
          IN  /\ phi_findings' = phi_findings \cup rows
              /\ local' = [local EXCEPT ![c].phiFindings = rows]
              /\ pc' = [pc EXCEPT ![c] = "file_update_file"]
              /\ UNCHANGED response
       \/ /\ Rejected(c, "Failed to create file scan", "Failed to insert PHI findings")
          /\ UNCHANGED <<phi_findings, local>>
    /\ UNCHANGED <<request, scans, scanned_files, folder_risks, alerts, alertCalls, functions>>

FileUpdateFile(c) ==
    /\ pc[c] = "file_update_file"
    /\ \/ /\ scanned_files' =
                {IF row.id = <<c, 1>>
                 THEN [row EXCEPT !.risk_score = local[c].phiResult.riskScore,
                                  !.risk_level = local[c].phiResult.riskLevel,
                                  !.phi_count = local[c].phiResult.phiCount]
                 ELSE row : row \in scanned_files}
          /\ local' = [local EXCEPT ![c].scannedFiles =
                          <<CHOOSE row \in scanned_files' : row.id = <<c, 1>> >>]
          /\ pc' = [pc EXCEPT ![c] = "file_update_scan"]
          /\ UNCHANGED response
       \/ /\ Rejected(c, "Failed to create file scan", "Failed to update file")
          /\ UNCHANGED <<scanned_files, local>>
    /\ UNCHANGED <<request, scans, phi_findings, folder_risks, alerts, alertCalls, functions>>

\* res.status(201).json(result)
FileScanResult(loc) ==
    [status |-> 201,
     body |-> [scan |-> loc.updatedScan, file |-> loc.scannedFiles[1],
               phiFindings |-> loc.phiFindings]]

FileUpdateScan(c) ==
    /\ pc[c] = "file_update_scan"
    /\ \/ /\ scans' =
                {IF row.id = c
                 THEN CompletedScan(row, local[c].phiResult.riskScore,
                                    local[c].phiResult.riskLevel, local[c].phiResult.phiCount)
                 ELSE row : row \in scans}
          /\ local' = [local EXCEPT ![c].updatedScan = ScanRow(c)']
          /\ IF IsHighRisk(local[c].phiResult.riskLevel)
             THEN /\ pc' = [pc EXCEPT ![c] = "file_create_alert"]
                  /\ UNCHANGED response
             ELSE /\ pc' = [pc EXCEPT ![c] = "done"]
                  /\ response' = [response EXCEPT ![c] = FileScanResult(local'[c])]
       \/ /\ Rejected(c, "Failed to create file scan", "Failed to update scan")
          /\ UNCHANGED <<scans, local>>
    /\ UNCHANGED <<request, scanned_files, phi_findings, folder_risks, alerts,
                   alertCalls, functions>>

\* alertService.createAlert, awaited by createFileScan
FileCreateAlert(c) ==
    /\ pc[c] = "file_create_alert"
    /\ LET alertData == AlertData(c, <<c, 1>>, request[c].file.fileName, local[c].phiResult)
       IN  /\ alertCalls' = Append(alertCalls, alertData)
           /\ \/ /\ alerts' = alerts \cup {alertData}
                 /\ pc' = [pc EXCEPT ![c] = "done"]
                 /\ response' = [response EXCEPT ![c] = FileScanResult(local[c])]
              \/ /\ Rejected(c, "Failed to create file scan", "Failed to create alert")
                 /\ UNCHANGED alerts
    /\ UNCHANGED <<request, local, scans, scanned_files, phi_findings, folder_risks, functions>>

(***************************************************************************)
(* POST /api/scans/folder and scanService.createFolderScan                 *)
(***************************************************************************)
PostFolder(c) ==
    /\ pc[c] = "idle"
    /\ \E body \in FolderScanBodies :
        /\ request' = [request EXCEPT ![c] = body]
        /\ IF ~Truthy(body.orgId) THEN BadRequest(c, "orgId is required")
           ELSE IF ~Truthy(body.rootPath) THEN BadRequest(c, "rootPath is required")
           ELSE IF ~Truthy(body.sourceType) THEN BadRequest(c, "sourceType is required")
           ELSE IF Len(body.files) = 0
           THEN BadRequest(c, "files array is required and must not be empty")
           ELSE /\ pc' = [pc EXCEPT ![c] = "folder_insert_scan"]
                /\ UNCHANGED response
    /\ UNCHANGED <<local, tables, alertCalls, functions>>

\* totals that keep the highest score instead of the sum
AccumulateHighest(totals, phiResult) ==
    [totals EXCEPT
       !.totalPhiCount = @ + phiResult.phiCount,
       !.totalRiskScore = IF phiResult.riskScore > @ THEN phiResult.riskScore ELSE @,
       !.maxRiskLevel = HigherRiskLevel(phiResult.riskLevel, @)]

\* the scan-level totals after one more file result
AccumulateTotals(totals, phiResult) ==
    [totals EXCEPT
       !.totalPhiCount = @ + phiResult.phiCount,
       !.totalRiskScore = @ + phiResult.riskScore,
       !.maxRiskLevel = HigherRiskLevel(phiResult.riskLevel, @)]

\* a row written before the file is scored
ScannedFileRowUnscored(id, scanId, orgId, file, phiResult) ==
    [id |-> id, scan_id |-> scanId, org_id |-> orgId, file_name |-> file.fileName,
     file_path |-> OrNull(file.filePath), risk_score |-> NoNumber,
     risk_level |-> "NULL", phi_count |-> phiResult.phiCount]

\* the row createFolderScan inserts into scanned_files
ScannedFileRow(id, scanId, orgId, file, phiResult) ==
    [id |-> id, scan_id |-> scanId, org_id |-> orgId, file_name |-> file.fileName,
     file_path |-> OrNull(file.filePath), risk_score |-> phiResult.riskScore,
     risk_level |-> phiResult.riskLevel, phi_count |-> phiResult.phiCount]

\* the code between the end of one pass of the loop over request.files and the
\* next await: the scan of the next file, or, after the last file, the folder
\* aggregates.  loc holds the locals as the pass left them.
ContinueFolderScan(c, loc) ==
    IF loc.i < Len(request[c].files)
    THEN LET file      == request[c].files[loc.i + 1]
             phiResult == scanContentForPhi(file.content, file.fileName)
         IN  IF phiResult.threw
             THEN /\ Rejected(c, "Failed to create folder scan", phiResult.error)
                  /\ local' = [local EXCEPT ![c] = [loc EXCEPT !.i = @ + 1]]
             ELSE /\ local' = [local EXCEPT ![c] =
                        [AccumulateTotals(loc, phiResult) EXCEPT
                           !.i = @ + 1,
                           !.phiResult = phiResult,
                           !.computed = Append(@, phiResult)]]
                  /\ pc' = [pc EXCEPT ![c] = "folder_insert_file"]
                  /\ UNCHANGED response
    ELSE LET folderAggregates == computeFolderAggregates(loc.scannedFiles, request[c].rootPath)
         IN  IF folderAggregates.threw
             THEN /\ Rejected(c, "Failed to create folder scan", folderAggregates.error)
                  /\ local' = [local EXCEPT ![c] = loc]
             ELSE /\ local' = [local EXCEPT ![c] =
                        [loc EXCEPT !.folderAggregates = folderAggregates.value, !.k = 1]]
                  /\ pc' = [pc EXCEPT ![c] = IF Len(folderAggregates.value) > 0
                                             THEN "folder_insert_folder_risk"
                                             ELSE "folder_update_scan"]
                  /\ UNCHANGED response

\* a scan record that starts out pending
FolderScanInsertPending(c) ==
    [id |-> c, org_id |-> request[c].orgId, scan_type |-> "folder",
     source_type |-> request[c].sourceType, root_path |-> request[c].rootPath,
     status |-> "pending", overall_risk_score |-> NoNumber,
     overall_risk_level |-> "NULL", total_files |-> Len(request[c].files),
     total_phi_count |-> 0]

\* the scan record createFolderScan inserts
FolderScanInsert(c) ==
    [id |-> c, org_id |-> request[c].orgId, scan_type |-> "folder",
     source_type |-> request[c].sourceType, root_path |-> request[c].rootPath,
     status |-> "running", overall_risk_score |-> NoNumber,
     overall_risk_level |-> "NULL", total_files |-> Len(request[c].files),
     total_phi_count |-> 0]

FolderInsertScan(c) ==
    /\ pc[c] = "folder_insert_scan"
    /\ \/ /\ scans' = scans \cup {FolderScanInsert(c)}
          /\ ContinueFolderScan(c, local[c])
       \/ /\ Rejected(c, "Failed to create folder scan", "Failed to create scan")
          /\ UNCHANGED <<scans, local>>
    /\ UNCHANGED <<request, scanned_files, phi_findings, folder_risks, alerts, alertCalls,
                   functions>>

\* after the file's rows are written: the alert for a high-risk file, or on
AfterFileWritten(c, loc) ==
    IF IsHighRisk(loc.phiResult.riskLevel)
    THEN /\ local' = [local EXCEPT ![c] = loc]
         /\ pc' = [pc EXCEPT ![c] = "folder_create_alert"]
         /\ UNCHANGED response
    ELSE ContinueFolderScan(c, loc)

FolderInsertFile(c) ==
    /\ pc[c] = "folder_insert_file"
    /\ \/ LET file     == request[c].files[local[c].i]
              fileData == ScannedFileRow(<<c, local[c].i>>, c, request[c].orgId, file,
                                         local[c].phiResult)
              loc      == [local[c] EXCEPT !.scannedFiles = Append(@, fileData)]
          IN  /\ scanned_files' = scanned_files \cup {fileData}
              /\ IF Len(loc.phiResult.findings) > 0
                 THEN /\ local' = [local EXCEPT ![c] = loc]
                      /\ pc' = [pc EXCEPT ![c] = "folder_insert_findings"]
                      /\ UNCHANGED response
                 ELSE AfterFileWritten(c, loc)
       \/ /\ Rejected(c, "Failed to create folder scan", "Failed to create scanned file")
          /\ UNCHANGED <<scanned_files, local>>
    /\ UNCHANGED <<request, scans, phi_findings, folder_risks, alerts, alertCalls, functions>>

\* a findings insert whose failure still closes the scan
FolderInsertFindingsClosing(c) ==
    /\ pc[c] = "folder_insert_findings"
    /\ \/ LET rows == FindingRows(c, <<c, local[c].i>>, local[c].phiResult.findings)
          IN  /\ phi_findings' = phi_findings \cup rows
              /\ AfterFileWritten(c, [local[c] EXCEPT !.phiFindings = @ \cup rows])
              /\ UNCHANGED scans
       \/ /\ Rejected(c, "Failed to create folder scan", "Failed to insert findings")
          /\ scans' = {IF row.id = c THEN [row EXCEPT !.status = "completed"] ELSE row :
                           row \in scans}
          /\ UNCHANGED <<phi_findings, local>>
    /\ UNCHANGED <<request, scanned_files, folder_risks, alerts, alertCalls, functions>>

FolderInsertFindings(c) ==
    /\ pc[c] = "folder_insert_findings"
    /\ \/ LET rows == FindingRows(c, <<c, local[c].i>>, local[c].phiResult.findings)
          IN  /\ phi_findings' = phi_findings \cup rows
              /\ AfterFileWritten(c, [local[c] EXCEPT !.phiFindings = @ \cup rows])
       \/ /\ Rejected(c, "Failed to create folder scan", "Failed to insert findings")
          /\ UNCHANGED <<phi_findings, local>>
    /\ UNCHANGED <<request, scans, scanned_files, folder_risks, alerts, alertCalls, functions>>

\* alertService.createAlert, awaited inside the loop of createFolderScan
FolderCreateAlert(c) ==
    /\ pc[c] = "folder_create_alert"
    /\ LET alertData == AlertData(c, <<c, local[c].i>>,
                                  request[c].files[local[c].i].fileName, local[c].phiResult)
       IN  /\ alertCalls' = Append(alertCalls, alertData)
           /\ \/ /\ alerts' = alerts \cup {alertData}
                 /\ ContinueFolderScan(c, local[c])
              \/ /\ Rejected(c, "Failed to create folder scan", "Failed to create alert")
                 /\ UNCHANGED <<alerts, local>>
    /\ UNCHANGED <<request, scans, scanned_files, phi_findings, folder_risks, functions>>

FolderInsertFolderRisk(c) ==
    /\ pc[c] = "folder_insert_folder_risk"
    /\ \/ LET agg        == local[c].folderAggregates[local[c].k]
              folderData == [scan_id |-> c, org_id |-> request[c].orgId,
                             folder_path |-> agg.folderPath, total_files |-> agg.totalFiles,
                             total_phi_count |-> agg.totalPhiCount,
                             avg_risk_score |-> agg.avgRiskScore,
                             max_risk_level |-> agg.maxRiskLevel]
          IN  /\ folder_risks' = folder_risks \cup {folderData}
              /\ local' = [local EXCEPT ![c].folderRisks = Append(@, folderData),
                                        ![c].k = @ + 1]
              /\ pc' = [pc EXCEPT ![c] = IF local[c].k < Len(local[c].folderAggregates)
                                         THEN "folder_insert_folder_risk"
                                         ELSE "folder_update_scan"]
              /\ UNCHANGED response
       \/ /\ Rejected(c, "Failed to create folder scan", "Failed to insert folder risk")
          /\ UNCHANGED <<folder_risks, local>>
    /\ UNCHANGED <<request, scans, scanned_files, phi_findings, alerts, alertCalls, functions>>

\* res.status(201).json({ scan, fileCount, highRiskFileCount, highRiskFiles, folderRisks })
FolderScanResult(loc) ==
    LET highRiskFiles == SelectSeq(loc.scannedFiles, LAMBDA f : IsHighRisk(f.risk_level))
    IN  [status |-> 201,
         body |-> [scan |-> loc.updatedScan, fileCount |-> Len(loc.scannedFiles),
                   highRiskFileCount |-> Len(highRiskFiles),
                   highRiskFiles |-> SubSeq(highRiskFiles, 1, Min(Len(highRiskFiles), 10)),
                   folderRisks |-> loc.folderRisks]]

\* a closing update without the filter on the scan's id
FolderUpdateScanAll(c) ==
    /\ pc[c] = "folder_update_scan"
    /\ \/ LET avgRiskScore == AverageRiskScore(local[c].totalRiskScore,
                                                Len(local[c].scannedFiles))
          IN  /\ scans' =
                    {IF row.status = "running"
                     THEN CompletedScan(row, avgRiskScore, local[c].maxRiskLevel,
                                        local[c].totalPhiCount)
                     ELSE row : row \in scans}
              /\ local' = [local EXCEPT ![c].updatedScan = ScanRow(c)']
              /\ pc' = [pc EXCEPT ![c] = "done"]
              /\ response' = [response EXCEPT ![c] = FolderScanResult(local'[c])]
       \/ /\ Rejected(c, "Failed to create folder scan", "Failed to update scan")
          /\ UNCHANGED <<scans, local>>
    /\ UNCHANGED <<request, scanned_files, phi_findings, folder_risks, alerts, alertCalls,
                   functions>>

FolderUpdateScan(c) ==
    /\ pc[c] = "folder_update_scan"
    /\ \/ LET avgRiskScore == AverageRiskScore(local[c].totalRiskScore,
                                                Len(local[c].scannedFiles))
          IN  /\ scans' =
                    {IF row.id = c
                     THEN CompletedScan(row, avgRiskScore, local[c].maxRiskLevel,
                                        local[c].totalPhiCount)
                     ELSE row : row \in scans}
              /\ local' = [local EXCEPT ![c].updatedScan = ScanRow(c)']
              /\ pc' = [pc EXCEPT ![c] = "done"]
              /\ response' = [response EXCEPT ![c] = FolderScanResult(local'[c])]
       \/ /\ Rejected(c, "Failed to create folder scan", "Failed to update scan")
          /\ UNCHANGED <<scans, local>>
    /\ UNCHANGED <<request, scanned_files, phi_findings, folder_risks, alerts, alertCalls,
                   functions>>

(***************************************************************************)
(* The scoring step on its own.  scanContentForPhi hands calculateRiskScore *)
(* the findings it pushed and the total of their occurrences; here the     *)
(* findings are drawn from every severity and occurrence count, one more   *)
(* pushed at each step, and scored as scanContentForPhi scores them.       *)
(***************************************************************************)
MaxFindings == 2

MaxOccurrences == 11

FindingInputs == [severity : RiskLevels, occurrences : 1..MaxOccurrences]

\* no request is made; the function studied is handed its inputs directly
FunctionInit == InitCalls({}) /\ rootPathIn = RootPath

ScoreInit == FunctionInit

ScoreFinding ==
    /\ Len(findingsIn) < MaxFindings
    /\ \E finding \in FindingInputs :
        /\ findingsIn' = Append(findingsIn, finding)
        /\ scoreOut' = ScoreFindings([findings |-> findingsIn',
                                      totalPhiCount |-> scoreOut.phiCount + finding.occurrences])
    /\ UNCHANGED <<pc, request, local, response, tables, alertCalls, scanning, masking,
                   aggregating, file_fingerprints, duplicates>>

ScoreNext == ScoreFinding

ScoreSpec == ScoreInit /\ [][ScoreNext]_vars

(***************************************************************************)
(* The scan on its own.  scanContentForPhi is called once, with a content  *)
(* that is given, empty or absent and a file name with or without a        *)
(* trigger keyword, in either case, or missing.                            *)
(***************************************************************************)
SsnContent == JsStr(<<"S", "S", "N", ":", " ", "1", "2", "3", "-", "4", "5", "-", "6", "7", "8", "9">>)

ContentInputs ==
    {JsNull, JsUndefined, JsStr(<<>>), JsNum(0), JsNum(12345), SsnContent,
     \* two SSNs
     JsStr(<<"S", "S", "N", " ", "1", "2", "3", "-", "4", "5", "-", "6", "7", "8", "9", " ", "o", "r", " ", "9", "8", "7", "-", "6", "5", "-", "4", "3", "2", "1">>),
     \* a card number
     JsStr(<<"4", "1", "1", "1", "1", "1", "1", "1", "1", "1", "1", "1", "1", "1", "1", "1">>),
     \* a diagnosis code
     JsStr(<<"D", "i", "a", "g", "n", "o", "s", "i", "s", ":", " ", "J", "0", "6", ".", "9">>),
     \* a phone number
     JsStr(<<"c", "a", "l", "l", " ", "5", "5", "5", "-", "1", "2", "3", "4">>),
     \* a phone number and two e-mail addresses
     JsStr(<<"5", "5", "5", "-", "1", "2", "3", "4", " ", "a", "@", "b", ".", "c", "o", " ", "c", "@", "d", ".", "c", "o">>),
     \* a record number
     JsStr(<<"M", "R", "N", ":", " ", "1", "2", "3", "4", "5", "6", "7">>),
     \* an SSN on the second line, its digits also inside a longer word on the first
     JsStr(<<"x", "1", "2", "3", "-", "4", "5", "-", "6", "7", "8", "9", "\n", "1", "2", "3", "-", "4", "5", "-", "6", "7", "8", "9">>),
     \* no PHI
     JsStr(<<"h", "e", "l", "l", "o", " ", "w", "o", "r", "l", "d">>)}

FileNameInputs ==
    {JsUndefined,
     \* no trigger keyword
     JsStr(<<"n", "o", "t", "e", "s", ".", "t", "x", "t">>),
     \* trigger keywords, in either case
     JsStr(<<"p", "a", "t", "i", "e", "n", "t", ".", "t", "x", "t">>),
     JsStr(<<"M", "e", "d", "i", "c", "a", "l", ".", "d", "o", "c">>),
     JsStr(<<"B", "I", "L", "L", "I", "N", "G", ".", "c", "s", "v">>),
     JsStr(<<"i", "n", "v", "o", "i", "c", "e", ".", "p", "d", "f">>),
     \* no trigger keyword, digits shaped like PHI
     JsStr(<<"1", "2", "3", "-", "4", "5", "-", "6", "7", "8", "9", ".", "t", "x", "t">>),
     JsStr(<<"5", "5", "5", "1", "2", "3", "4">>),
     \* no trigger keyword
     JsStr(<<"r", "e", "a", "d", "m", "e">>),
     JsStr(<<"a", ".", "t", "x", "t">>)}

ScanContent ==
    /\ scanOut = NotCalled
    /\ \E content \in ContentInputs, fileName \in FileNameInputs :
        /\ contentIn' = content
        /\ fileNameIn' = fileName
        /\ textScanned' = TextToScan(content, fileName)
        /\ scanOut' = scanContentForPhi(content, fileName)
    /\ UNCHANGED <<pc, request, local, response, tables, alertCalls, scoring, masking,
                   aggregating, file_fingerprints, duplicates>>

ScanSpec == FunctionInit /\ [][ScanContent]_vars

(***************************************************************************)
(* The mask on its own.  maskSensitiveData is handed the values a pattern  *)
(* can match, built one character at a time from a digit, a separator and  *)
(* a letter (no pattern matches the mask character itself).                *)
(***************************************************************************)
MaxValueLen == 6

MatchedChars == {"1", "-", "a"}

MaskValue ==
    /\ Len(valueIn) < MaxValueLen
    /\ \E char \in MatchedChars, n \in 1..Len(PHI_PATTERNS) :
        /\ valueIn' = Append(valueIn, char)
        /\ maskOut' = maskSensitiveData(valueIn', PHI_PATTERNS[n].type)
    /\ UNCHANGED <<pc, request, local, response, tables, alertCalls, scoring, scanning,
                   aggregating, file_fingerprints, duplicates>>

MaskSpec == FunctionInit /\ [][MaskValue]_vars

(***************************************************************************)
(* The aggregation on its own.  A batch of file results is built one file  *)
(* at a time, as the loop of createFolderScan builds it: each file's row   *)
(* is pushed, the scan-level totals are accumulated, and the rows pushed   *)
(* so far are handed to computeFolderAggregates.  Files come with a path   *)
(* in a folder, in a nested folder, directly under "/", or with a name     *)
(* alone; results cover every risk level.                                  *)
(***************************************************************************)
MaxBatch == 2

AggregateFileInputs ==
    {FileObject(JsStr(<<"a", ".", "t", "x", "t">>), JsNull, JsNull),
     FileObject(JsStr(<<"x", "/", "y", ".", "t", "x", "t">>), JsNull, JsNull),
     FileObject(JsStr(<<"a", ".", "t", "x", "t">>), JsStr(<<"f", "o", "l", "d", "e", "r", "1", "/", "a", ".", "t", "x", "t">>), JsNull),
     FileObject(JsStr(<<"b", ".", "t", "x", "t">>), JsStr(<<"f", "o", "l", "d", "e", "r", "1", "/", "b", ".", "t", "x", "t">>), JsNull),
     FileObject(JsStr(<<"c", ".", "t", "x", "t">>), JsStr(<<"/", "c", ".", "t", "x", "t">>), JsNull),
     FileObject(JsStr(<<"d", ".", "t", "x", "t">>), JsStr(<<"f", "o", "l", "d", "e", "r", "1", "/", "s", "u", "b", "/", "d", ".", "t", "x", "t">>), JsNull)}

FileResultInputs ==
    {[riskScore |-> 0, riskLevel |-> "LOW", phiCount |-> 0],
     [riskScore |-> 30, riskLevel |-> "MEDIUM", phiCount |-> 1],
     [riskScore |-> 63, riskLevel |-> "HIGH", phiCount |-> 3],
     [riskScore |-> 90, riskLevel |-> "CRITICAL", phiCount |-> 5]}

AggregateInit == InitCalls({}) /\ rootPathIn \in {RootPath, JsStr(<<>>)}

AggregateFile ==
    /\ Len(filesIn) < MaxBatch
    /\ \E file \in AggregateFileInputs, phiResult \in FileResultInputs :
        /\ filesIn' = Append(filesIn, ScannedFileRow(<<0, Len(filesIn) + 1>>, 0, OrgId, file,
                                                     phiResult))
        /\ totalsOut' = AccumulateTotals(totalsOut, phiResult)
        /\ aggregatesOut' = computeFolderAggregates(filesIn', rootPathIn)
    /\ UNCHANGED <<pc, request, local, response, tables, alertCalls, scoring, scanning,
                   masking, rootPathIn, file_fingerprints, duplicates>>

AggregateSpec == AggregateInit /\ [][AggregateFile]_vars

(***************************************************************************)
(* The duplicate lookup (scanService.ts:722-759, scanRoutes.ts:228-242).   *)
(* Its three reads are taken as one step; failure names the read that      *)
(* returns an error, if any.  The answer's list is taken as a set.         *)
(***************************************************************************)
findDuplicateFiles(fileId, failure) ==
    LET fileFingerprints == {link \in file_fingerprints : link.file_id = fileId}
        fingerprintIds   == {link.fingerprint_id : link \in fileFingerprints}
        matchingFileIds  == {link.file_id : link \in
                                {other \in file_fingerprints :
                                    /\ other.fingerprint_id \in fingerprintIds
                                    /\ other.file_id # fileId}}
    IN  IF failure = "fileFingerprints" \/ fileFingerprints = {}
        THEN [threw |-> FALSE, value |-> {}]
        ELSE IF failure = "matchingFingerprints" \/ matchingFileIds = {}
        THEN [threw |-> FALSE, value |-> {}]
        ELSE IF failure = "files"
        THEN [threw |-> TRUE, error |-> "Failed to get duplicate files"]
        ELSE [threw |-> FALSE,
              value |-> {row \in scanned_files : row.id \in matchingFileIds}]

\* GET /files/:fileId/duplicates, once for a file that is stored
GetDuplicates(fileId) ==
    /\ fileId \notin DOMAIN duplicates
    /\ \E row \in scanned_files : row.id = fileId
    /\ \E failure \in {"none", "fileFingerprints", "matchingFingerprints", "files"} :
        LET found == findDuplicateFiles(fileId, failure)
        IN  duplicates' = (fileId :>
                IF found.threw
                THEN [status |-> 500, body |-> [error   |-> "Failed to find duplicates",
                                                message |-> found.error]]
                ELSE [status |-> 200, body |-> [duplicates |-> found.value]]) @@ duplicates
    /\ UNCHANGED <<pc, request, local, response, tables, alertCalls, scoring, scanning,
                   masking, aggregating, file_fingerprints>>

\* the lookup on its own: three stored files, linked to two fingerprints in
\* every possible way
DuplicateInit ==
    /\ \E links \in SUBSET [file_id : {<<0, 1>>, <<0, 2>>, <<0, 3>>}, fingerprint_id : {"p", "q"}] :
           InitWith([c \in Calls |-> "off"], [c \in Calls |-> NoRequest], {ScannedFileRow(<<0, i>>, 0, OrgId, PhoneFile,
                                        [riskScore |-> 57, riskLevel |-> "MEDIUM",
                                         phiCount |-> 1]) : i \in 1..3}, links)
    /\ rootPathIn = RootPath

DuplicateSpec == DuplicateInit /\ [][\E row \in scanned_files : GetDuplicates(row.id)]_vars

(***************************************************************************)
(* Two requests in flight.  Both bodies have passed the route's checks and *)
(* neither has made its first datastore call; from there the awaits of the *)
(* two calls interleave in any order.                                      *)
(***************************************************************************)
ConcurrentInit ==
    /\ \E first \in [type : {"file"}, orgId : {OrgId}, file : {PhoneFile, MailFile}]
                    \cup [type : {"folder"}, orgId : {OrgId}, rootPath : {RootPath},
                          sourceType : {SourceType},
                          files : UNION {[1..n -> {PhoneFile, MailFile}] : n \in 1..MaxFiles}],
           second \in [type : {"file"}, orgId : {OrgId}, file : {MailFile}]
                     \cup [type : {"folder"}, orgId : {OrgId}, rootPath : {RootPath},
                           sourceType : {SourceType},
                           files : {<<MailFile, NotesFile>>}] :
           InitWith([c \in Calls |-> IF <<first, second>>[c].type = "file"
                                     THEN "file_insert_scan" ELSE "folder_insert_scan"],
                    <<first, second>>, {}, {})
    /\ rootPathIn = RootPath

ConcurrentSpec ==
    ConcurrentInit /\ [][\E c \in Calls :
                            \/ FileInsertScan(c)
                            \/ FileInsertFile(c)
                            \/ FileInsertFindings(c)
                            \/ FileUpdateFile(c)
                            \/ FileUpdateScan(c)
                            \/ FileCreateAlert(c)
                            \/ FolderInsertScan(c)
                            \/ FolderInsertFile(c)
                            \/ FolderInsertFindings(c)
                            \/ FolderCreateAlert(c)
                            \/ FolderInsertFolderRisk(c)
                            \/ FolderUpdateScan(c)]_vars

Next ==
    \/ \E c \in Calls :
        \/ PostFile(c)
        \/ FileInsertScan(c)
        \/ FileInsertFile(c)
        \/ FileInsertFindings(c)
        \/ FileUpdateFile(c)
        \/ FileUpdateScan(c)
        \/ FileCreateAlert(c)
        \/ PostFolder(c)
        \/ FolderInsertScan(c)
        \/ FolderInsertFile(c)
        \/ FolderInsertFindings(c)
        \/ FolderCreateAlert(c)
        \/ FolderInsertFolderRisk(c)
        \/ FolderUpdateScan(c)
    \/ \E row \in scanned_files : GetDuplicates(row.id)

Spec == Init /\ [][Next]_vars



(***************************************************************************)
(* Properties.  What the records of call c show.                          *)
(***************************************************************************)
StatusOf(db, c) == IF \E row \in db : row.id = c THEN (CHOOSE row \in db : row.id = c).status
                   ELSE "none"

FilesOf(c) == {row \in scanned_files : row.scan_id = c}

RecordsOf(c) ==
    {row \in scans : row.id = c} \cup FilesOf(c)
    \cup {row \in phi_findings : row.scan_id = c}
    \cup {row \in folder_risks : row.scan_id = c}
    \cup {row \in alerts : row.related_scan_id = c}

Failed(c, message) ==
    pc[c] = "done" /\ response[c].status = 500 /\ response[c].body.message = message

\* the failures of the datastore and of the alerting collaborator
CollaboratorErrors ==
    {"Failed to create scan", "Failed to create scanned file", "Failed to insert PHI findings",
     "Failed to insert findings", "Failed to update file", "Failed to update scan",
     "Failed to insert folder risk", "Failed to create alert"}

CollaboratorFailed(c) ==
    pc[c] = "done" /\ response[c].status = 500
    /\ response[c].body.message \in CollaboratorErrors

IsFolderCall(c) == request[c].type = "folder"

AllFilesNamed(c) == \A n \in 1..Len(request[c].files) : Truthy(request[c].files[n].fileName)

C2_ScanFailureNeverFailsBatch ==
    \A c \in Calls :
        (pc[c] = "done" /\ IsFolderCall(c) /\ response[c].status # 400
         /\ AllFilesNamed(c) /\ ~CollaboratorFailed(c))
        => /\ StatusOf(scans, c) = "completed"
           /\ Len(local[c].computed) = Len(request[c].files)

\* C3: when the insert of a file's scanned_files row or of its phi_findings
\* rows fails in a folder scan, the request ends there: no later file has
\* been scanned or persisted, the failed file's own missing rows stay
\* missing, no folder_risks row exists for the scan, and the scan is not
\* COMPLETED.
C3_WriteFailureAbortsBatch ==
    \A c \in Calls :
        (IsFolderCall(c)
         /\ (Failed(c, "Failed to create scanned file") \/ Failed(c, "Failed to insert findings")))
        => /\ Len(local[c].computed) = local[c].i
           /\ \A row \in FilesOf(c) : row.id[2] <= local[c].i
           /\ \A row \in phi_findings : row.scan_id = c => row.file_id[2] < local[c].i
           /\ Failed(c, "Failed to create scanned file")
              => \A row \in FilesOf(c) : row.id[2] < local[c].i
           /\ \A row \in folder_risks : row.scan_id # c
           /\ StatusOf(scans, c) = "running"
           /\ ~ENABLED FolderInsertFile(c)
           /\ ~ENABLED FolderInsertFolderRisk(c)
           /\ ~ENABLED FolderUpdateScan(c)

\* the findings of the first of two files could not be written
C3_Witness ==
    \E c \in Calls :
        /\ IsFolderCall(c)
        /\ Failed(c, "Failed to insert findings")
        /\ local[c].i = 1
        /\ Len(request[c].files) = 2

\* the signals sent to the alerting collaborator for file fileId of scan c
SignalsFor(c, fileId) ==
    {n \in 1..Len(alertCalls) :
        alertCalls[n].related_scan_id = c /\ alertCalls[n].related_file_id = fileId}

\* C4: the alerting collaborator is never signalled twice for a file nor for
\* a file that is not HIGH or CRITICAL; each signal has alertType
\* HIGH_FILE_RISK, the file's riskLevel as severity, and the ids of a
\* persisted file of that scan; and once the request has ended with the
\* scan COMPLETED, each HIGH or CRITICAL file has been signalled exactly once.
C4_OneAlertPerHighRiskFile ==
    \A c \in Calls :
        /\ \A n \in 1..Len(alertCalls) :
              alertCalls[n].related_scan_id = c
              => /\ alertCalls[n].alert_type = "HIGH_FILE_RISK"
                 /\ Cardinality(SignalsFor(c, alertCalls[n].related_file_id)) = 1
                 /\ \E row \in FilesOf(c) :
                       /\ row.id = alertCalls[n].related_file_id
                       /\ row.risk_level \in {"HIGH", "CRITICAL"}
                       /\ row.risk_level = alertCalls[n].severity
        /\ (pc[c] = "done" /\ StatusOf(scans, c) = "completed")
           => \A row \in FilesOf(c) :
                 Cardinality(SignalsFor(c, row.id)) =
                     IF row.risk_level \in {"HIGH", "CRITICAL"} THEN 1 ELSE 0

\* a completed folder scan with a HIGH file, signalled, and a MEDIUM file, not
C4_Witness ==
    \E c \in Calls :
        /\ pc[c] = "done"
        /\ StatusOf(scans, c) = "completed"
        /\ \E high, medium \in FilesOf(c) :
              /\ high.risk_level = "HIGH"
              /\ medium.risk_level = "MEDIUM"
              /\ Cardinality(SignalsFor(c, high.id)) = 1
              /\ SignalsFor(c, medium.id) = {}

\* the signals for scan c that the alerting collaborator rejected
RejectedSignals(c) ==
    {n \in 1..Len(alertCalls) :
        alertCalls[n].related_scan_id = c /\ alertCalls[n] \notin alerts}

\* C5: a request during which the alerting collaborator rejected a signal
\* still returns its result, with every file processed and the scan COMPLETED.
C5_AlertFailureNeverFailsScan ==
    \A c \in Calls :
        (pc[c] = "done" /\ RejectedSignals(c) # {})
        => /\ response[c].status = 201
           /\ StatusOf(scans, c) = "completed"
           /\ IsFolderCall(c) => Len(local[c].computed) = Len(request[c].files)

\* a required identifying field of the request of call c is missing
MissingRequiredField(c) ==
    CASE request[c].type = "file" ->
            \/ ~Truthy(request[c].orgId)
            \/ request[c].file.kind = "null"
            \/ ~Truthy(request[c].file.fileName)
      [] request[c].type = "folder" ->
            \/ ~Truthy(request[c].orgId)
            \/ ~Truthy(request[c].rootPath)
            \/ ~Truthy(request[c].sourceType)
            \/ Len(request[c].files) = 0
            \/ ~AllFilesNamed(c)
      [] OTHER -> FALSE

\* C6: a request missing a required identifying field is rejected before
\* any file is scanned and leaves no scan, file, finding, folder-aggregate
\* or alert record, and no signal to the alerting collaborator.
C6_MissingFieldRejected ==
    \A c \in Calls :
        MissingRequiredField(c)
        => /\ pc[c] = "done" => response[c].status = 400
           /\ local[c].computed = <<>>
           /\ RecordsOf(c) = {}
           /\ \A n \in 1..Len(alertCalls) : alertCalls[n].related_scan_id # c

\* C7: a request that ends on a datastore or alerting error after per-file
\* results were computed delivers them: its response holds more than the
\* error and its message.
C7_ComputedResultsDelivered ==
    \A c \in Calls :
        (CollaboratorFailed(c) /\ local[c].computed # <<>>)
        => DOMAIN response[c].body # {"error", "message"}

\* C8: for every list of findings, each with at least one occurrence and
\* any severity, the riskScore is an integer from 0 to 100, it is 0 exactly
\* when the list is empty, and the riskLevel of the empty list is LOW.
C8_ScoreBounds ==
    /\ scoreOut.findings = findingsIn
    /\ scoreOut.riskScore \in 0..100
    /\ scoreOut.riskScore = 0 <=> findingsIn = <<>>
    /\ findingsIn = <<>> => scoreOut.riskLevel = "LOW"

\* two findings whose score the cap at 100 cut down
C8_Witness ==
    /\ Len(findingsIn) = 2
    /\ \A n \in 1..2 : findingsIn[n].severity = "CRITICAL" /\ findingsIn[n].occurrences >= 10
    /\ scoreOut.riskScore = 100

\* severityScore * (10 + min(occurrences, 10)), summed: 1000 times the sum
\* of (severityScore / 100) * (1 + min(occurrences / 10, 1))
RECURSIVE WeightedThousandths(_)
WeightedThousandths(findings) ==
    IF findings = <<>> THEN 0
    ELSE LET severityScore == CASE Head(findings).severity = "CRITICAL" -> 100
                                [] Head(findings).severity = "HIGH"     -> 75
                                [] Head(findings).severity = "MEDIUM"   -> 50
                                [] Head(findings).severity = "LOW"      -> 25
             occurrences   == Head(findings).occurrences
         IN  severityScore * (10 + (IF occurrences < 10 THEN occurrences ELSE 10))
             + WeightedThousandths(Tail(findings))

RECURSIVE TotalOccurrences(_)
TotalOccurrences(findings) ==
    IF findings = <<>> THEN 0
    ELSE Head(findings).occurrences + TotalOccurrences(Tail(findings))

\* min(round(baseScore + countBonus), 100) in exact arithmetic, with
\* baseScore = WeightedThousandths / (10 * number of findings): the integer r
\* with r - 1/2 <= baseScore + countBonus < r + 1/2
FormulaScore(findings) ==
    LET n          == Len(findings)
        total      == TotalOccurrences(findings)
        countBonus == IF 2 * total < 20 THEN 2 * total ELSE 20
        rounded    == (2 * WeightedThousandths(findings) + 20 * n * countBonus + 10 * n)
                          \div (20 * n)
    IN  IF rounded < 100 THEN rounded ELSE 100

\* C9: for every non-empty list of findings the riskScore is
\* min(round(baseScore + countBonus), 100), baseScore being 100 times the
\* mean over the findings of (severityScore / 100) * (1 + min(occurrences / 10, 1))
\* and countBonus min(2 * total occurrences, 20).
C9_ScoreIsFormula ==
    findingsIn # <<>> => scoreOut.riskScore = FormulaScore(findingsIn)

\* level(score) as the thresholds give it
ThresholdLevel(score) ==
    CASE score >= 80 -> "CRITICAL"
      [] score >= 60 /\ score < 80 -> "HIGH"
      [] score >= 30 /\ score < 60 -> "MEDIUM"
      [] score < 30 -> "LOW"

LevelRank(level) ==
    CASE level = "LOW" -> 0 [] level = "MEDIUM" -> 1 [] level = "HIGH" -> 2
      [] level = "CRITICAL" -> 3

\* C10: the level of a score is CRITICAL from 80, HIGH from 60, MEDIUM from
\* 30 and LOW below; a higher score never has a lower level; and every
\* persisted file with its risk_score and risk_level set, like every result
\* of a scan, has the level of its score.
C10_LevelFromScore ==
    /\ \A s \in 0..100 : getRiskLevelFromScore(s) = ThresholdLevel(s)
    /\ \A s1, s2 \in 0..100 :
          s1 <= s2 => LevelRank(getRiskLevelFromScore(s1)) <= LevelRank(getRiskLevelFromScore(s2))
    /\ \A row \in scanned_files :
          (row.risk_score # NoNumber /\ row.risk_level # "NULL")
          => row.risk_level = ThresholdLevel(row.risk_score)
    /\ \A c \in Calls : \A n \in 1..Len(local[c].computed) :
          local[c].computed[n].riskLevel = ThresholdLevel(local[c].computed[n].riskScore)

\* persisted files of the same scan on either side of a threshold
C10_Witness ==
    \E low, high \in scanned_files :
        /\ low.scan_id = high.scan_id
        /\ low.risk_score # NoNumber /\ low.risk_score < 60 /\ low.risk_level = "MEDIUM"
        /\ high.risk_score >= 60 /\ high.risk_level = "HIGH"

(***************************************************************************)
(* Properties of the scan on its own (ScanSpec).                           *)
(***************************************************************************)
Scanned == scanOut # NotCalled /\ ~scanOut.threw

\* C11: scanning the content "SSN: 123-45-6789" yields exactly one finding,
\* of type SSN, severity CRITICAL, occurrences 1 and sample "12*******89", with
\* riskScore 100 and riskLevel CRITICAL; and every scan whose only finding is
\* one CRITICAL finding has riskScore 100.
C11_SsnScenario ==
    /\ (Scanned /\ contentIn = SsnContent) =>
           /\ Len(scanOut.findings) = 1
           /\ scanOut.findings[1].phiType = "SSN"
           /\ scanOut.findings[1].severity = "CRITICAL"
           /\ scanOut.findings[1].occurrences = 1
           /\ scanOut.findings[1].sampleSnippet = <<"1", "2", "*", "*", "*", "*", "*", "*", "*", "8", "9">>
           /\ scanOut.riskScore = 100
           /\ scanOut.riskLevel = "CRITICAL"
    /\ (Scanned /\ Len(scanOut.findings) = 1 /\ scanOut.findings[1].severity = "CRITICAL") =>
           scanOut.riskScore = 100

C11_Witness ==
    /\ Scanned
    /\ contentIn = SsnContent
    /\ Len(scanOut.findings) = 1
    /\ scanOut.riskScore = 100

TriggerKeywords ==
    {<<"p", "a", "t", "i", "e", "n", "t">>, <<"m", "e", "d", "i", "c", "a", "l">>,
     <<"b", "i", "l", "l", "i", "n", "g">>, <<"i", "n", "v", "o", "i", "c", "e">>}

HasTriggerKeyword(fileName) ==
    \E keyword \in TriggerKeywords : includes(toLowerCase(fileName), keyword)

Absent(content) == content = JsNull \/ content = JsUndefined

\* C12: for every file whose content is absent and whose name contains none of
\* the trigger keywords (patient, medical, billing, invoice, in any case), the
\* scan returns findings = [], phiCount = 0, riskScore = 0, riskLevel = LOW.
C12_PlaceholderHasNoPhi ==
    (/\ scanOut # NotCalled
     /\ Absent(contentIn)
     /\ fileNameIn.kind = "string"
     /\ ~HasTriggerKeyword(fileNameIn.s)) =>
        /\ ~scanOut.threw
        /\ scanOut.findings = <<>>
        /\ scanOut.phiCount = 0
        /\ scanOut.riskScore = 0
        /\ scanOut.riskLevel = "LOW"

\* C13, as stated: whenever content is a string, exactly that string is scanned
\* and no text synthesized from the file name is substituted.
C13_ContentStringScanned ==
    (scanOut # NotCalled /\ contentIn.kind = "string") =>
        textScanned = [threw |-> FALSE, value |-> contentIn.s]

\* C13, amended: whenever content is a non-empty string, exactly that string is
\* scanned, whatever the file name; the text synthesized from the file name is
\* scanned only when content is absent (null or undefined) or empty (the empty
\* string or another falsy value).
C13_NonEmptyContentScanned ==
    scanOut # NotCalled =>
        /\ (contentIn.kind = "string" /\ contentIn.s # <<>>) =>
               /\ textScanned = [threw |-> FALSE, value |-> contentIn.s]
               /\ scanOut = ScanText([threw |-> FALSE, value |-> contentIn.s])
        /\ (fileNameIn.kind = "string" /\ textScanned = generateMockContent(fileNameIn)) =>
               \/ Absent(contentIn)
               \/ contentIn = JsStr(<<>>)
               \/ contentIn = JsNum(0)

C13_Witness ==
    /\ Scanned
    /\ contentIn = SsnContent
    /\ fileNameIn.kind = "string"
    /\ HasTriggerKeyword(fileNameIn.s)
    /\ Len(scanOut.findings) = 1

(***************************************************************************)
(* Properties of the mask on its own (MaskSpec).                           *)
(***************************************************************************)
\* C14: for every matched value v, the masked sample is "****" when
\* len(v) <= 4; otherwise it is the first 2 characters of v, then len(v) - 4
\* characters '*', then the last 2 characters of v, so it is as long as v, and
\* it does not contain v as a substring.
C14_MaskRule ==
    maskOut # <<>> =>
        IF Len(valueIn) <= 4
        THEN maskOut = <<"*", "*", "*", "*">>
        ELSE /\ Len(maskOut) = Len(valueIn)
             /\ \A i \in 1..Len(valueIn) :
                    maskOut[i] = IF i <= 2 \/ i > Len(valueIn) - 2 THEN valueIn[i] ELSE "*"
             /\ ~includes(maskOut, valueIn)

C14_Witness ==
    /\ Len(valueIn) = 5
    /\ maskOut = <<valueIn[1], valueIn[2], "*", valueIn[4], valueIn[5]>>

(***************************************************************************)
(* Properties of the aggregation on its own (AggregateSpec).               *)
(***************************************************************************)
Aggregates == {aggregatesOut.value[n] : n \in 1..Len(aggregatesOut.value)}

\* the folder a file of the batch is counted in
FolderKey(file) == getParentFolder(FolderKeySource(file).s, rootPathIn)

FilesInFolder(folderPath) == {k \in 1..Len(filesIn) : FolderKey(filesIn[k]) = folderPath}

RECURSIVE SumPhiCount(_)
SumPhiCount(K) ==
    IF K = {} THEN 0
    ELSE LET k == CHOOSE k \in K : TRUE IN filesIn[k].phi_count + SumPhiCount(K \ {k})

RECURSIVE SumRiskScore(_)
SumRiskScore(K) ==
    IF K = {} THEN 0
    ELSE LET k == CHOOSE k \in K : TRUE IN filesIn[k].risk_score + SumRiskScore(K \ {k})

RECURSIVE SumTotalPhiCount(_)
SumTotalPhiCount(A) ==
    IF A = {} THEN 0
    ELSE LET a == CHOOSE a \in A : TRUE IN a.totalPhiCount + SumTotalPhiCount(A \ {a})

\* C15: the totalPhiCount values of the folder aggregates add up to the sum of
\* phiCount over all files of the batch, and each folder's totalPhiCount is the
\* sum of phiCount over exactly the files whose folder key is its folderPath.
C15_PhiCountPreserved ==
    /\ ~aggregatesOut.threw
    /\ Cardinality(Aggregates) = Len(aggregatesOut.value)
    /\ \A a, b \in Aggregates : a.folderPath = b.folderPath => a = b
    /\ SumTotalPhiCount(Aggregates) = SumPhiCount(1..Len(filesIn))
    /\ \A a \in Aggregates : a.totalPhiCount = SumPhiCount(FilesInFolder(a.folderPath))

C15_Witness ==
    /\ Len(filesIn) = 2
    /\ Cardinality(Aggregates) = 2
    /\ SumTotalPhiCount(Aggregates) = 8
    /\ \E a \in Aggregates : a.totalPhiCount = 5

\* the path with its last '/'-separated component removed
ParentOfPath(path) == SubSeq(path, 1, LastSlash(path) - 1)

ClaimedFolderKey(file) ==
    LET path == IF file.file_path # JsNull THEN file.file_path.s ELSE file.file_name.s
    IN  IF \E i \in 1..Len(path) : path[i] = "/" THEN ParentOfPath(path)
        ELSE IF rootPathIn.s # <<>> THEN rootPathIn.s ELSE <<"/">>

\* C16: every file whose logical path has a parent component is keyed by that
\* path with its last component removed; a file is keyed by rootPath ("/" when
\* rootPath is empty) exactly when its path is a bare file name; a file with no
\* logical path is keyed through its file name.
C16_ParentOrRoot ==
    /\ \A k \in 1..Len(filesIn) :
           \E a \in Aggregates : a.folderPath = ClaimedFolderKey(filesIn[k])
    /\ \A a \in Aggregates :
           \E k \in 1..Len(filesIn) : a.folderPath = ClaimedFolderKey(filesIn[k])

HighestLevel(K) ==
    CHOOSE level \in RiskLevels :
        /\ \E k \in K : filesIn[k].risk_level = level
        /\ \A k \in K : LevelRank(filesIn[k].risk_level) <= LevelRank(level)

\* the mean of the scores, rounded to the nearest integer, halves upwards
RoundedMean(sum, count) == (2 * sum + count) \div (2 * count)

IsScenarioBatch ==
    /\ Len(filesIn) = 2
    /\ \E k \in 1..2 :
           /\ filesIn[k].file_path = JsStr(<<"f", "o", "l", "d", "e", "r", "1", "/", "a", ".", "t", "x", "t">>)
           /\ filesIn[k].risk_score = 90
           /\ filesIn[k].phi_count = 5
    /\ \E k \in 1..2 :
           /\ filesIn[k].file_path = JsStr(<<"f", "o", "l", "d", "e", "r", "1", "/", "b", ".", "t", "x", "t">>)
           /\ filesIn[k].risk_score = 30
           /\ filesIn[k].phi_count = 1

ScenarioAggregate ==
    [folderPath |-> <<"f", "o", "l", "d", "e", "r", "1">>, totalFiles |-> 2, totalPhiCount |-> 6,
     avgRiskScore |-> 60, maxRiskLevel |-> "CRITICAL"]

\* C17: each folder aggregate has totalFiles = the number of files in the
\* folder, at least 1, totalPhiCount = the sum of their phiCount, avgRiskScore =
\* the rounded mean of their riskScore and maxRiskLevel = the highest of their
\* riskLevel in the order LOW < MEDIUM < HIGH < CRITICAL; folder1/a.txt (90, 5)
\* with folder1/b.txt (30, 1) gives folder1: 2 files, 6, 60, CRITICAL.
C17_FolderAggregate ==
    /\ \A a \in Aggregates :
           /\ a.totalFiles = Cardinality(FilesInFolder(a.folderPath))
           /\ a.totalFiles >= 1
           /\ a.totalPhiCount = SumPhiCount(FilesInFolder(a.folderPath))
           /\ a.avgRiskScore = RoundedMean(SumRiskScore(FilesInFolder(a.folderPath)),
                                           a.totalFiles)
           /\ a.maxRiskLevel = HighestLevel(FilesInFolder(a.folderPath))
    /\ IsScenarioBatch => aggregatesOut.value = <<ScenarioAggregate>>

C17_Witness ==
    /\ IsScenarioBatch
    /\ filesIn[2].risk_score = 30
    /\ ScenarioAggregate \in Aggregates

\* the scan-level totals createFolderScan accumulates over the first k rows
RECURSIVE TotalsOf(_, _)
TotalsOf(files, k) ==
    IF k = 0 THEN [totalPhiCount |-> 0, totalRiskScore |-> 0, maxRiskLevel |-> "LOW"]
    ELSE AccumulateTotals(TotalsOf(files, k - 1),
                          [riskScore |-> files[k].risk_score,
                           riskLevel |-> files[k].risk_level,
                           phiCount  |-> files[k].phi_count])

Swapped(i, j) == [filesIn EXCEPT ![i] = filesIn[j], ![j] = filesIn[i]]

AggregatesOf(files) ==
    LET result == computeFolderAggregates(files, rootPathIn)
    IN  {result.value[n] : n \in 1..Len(result.value)}

SameTotals(files) ==
    LET totals == TotalsOf(files, Len(files))
    IN  /\ totals = totalsOut
        /\ AverageRiskScore(totals.totalRiskScore, Len(files))
               = AverageRiskScore(totalsOut.totalRiskScore, Len(filesIn))

\* C18: the set of folder aggregates and the scan-level totals (total PHI
\* count, overall risk score, overall risk level) do not depend on the order in
\* which the file results are accumulated: exchanging any two files of the
\* batch, and so any permutation, gives the same set and the same totals.
C18_OrderIndependent ==
    /\ SameTotals(filesIn)
    /\ \A i, j \in 1..Len(filesIn) :
           /\ AggregatesOf(Swapped(i, j)) = Aggregates
           /\ SameTotals(Swapped(i, j))

C18_Witness ==
    /\ Len(filesIn) = 2
    /\ FolderKey(filesIn[1]) = FolderKey(filesIn[2])
    /\ filesIn[1].risk_level = "CRITICAL"
    /\ filesIn[2].risk_level = "LOW"
    /\ totalsOut.maxRiskLevel = "CRITICAL"
    /\ \A a \in Aggregates : a.maxRiskLevel = "CRITICAL"

(***************************************************************************)
(* Properties of the scan totals (Spec).                                   *)
(***************************************************************************)
Completed(c) == StatusOf(scans, c) = "completed"

RECURSIVE SumOfScores(_)
SumOfScores(rows) ==
    IF rows = {} THEN 0
    ELSE LET row == CHOOSE row \in rows : TRUE IN row.risk_score + SumOfScores(rows \ {row})

MaximumLevel(rows) ==
    CHOOSE level \in RiskLevels :
        /\ \E row \in rows : row.risk_level = level
        /\ \A row \in rows : LevelRank(row.risk_level) <= LevelRank(level)

\* C19: for every completed folder scan, overall_risk_score is the rounded mean
\* of the risk scores of the scan's files and overall_risk_level is the highest
\* of their risk levels in the order LOW < MEDIUM < HIGH < CRITICAL.
C19_OverallIsMeanAndMax ==
    \A c \in Calls :
        (IsFolderCall(c) /\ Completed(c)) =>
            /\ Cardinality(FilesOf(c)) = Len(request[c].files)
            /\ Cardinality(FilesOf(c)) >= 1
            /\ ScanRow(c).overall_risk_score =
                   RoundedMean(SumOfScores(FilesOf(c)), Cardinality(FilesOf(c)))
            /\ ScanRow(c).overall_risk_level = MaximumLevel(FilesOf(c))

C19_Witness ==
    \E c \in Calls :
        /\ IsFolderCall(c)
        /\ Completed(c)
        /\ Cardinality(FilesOf(c)) = 2
        /\ SumOfScores(FilesOf(c)) = 157
        /\ ScanRow(c).overall_risk_score = 79
        /\ ScanRow(c).overall_risk_level = "CRITICAL"
        /\ local[c].phiResult.riskLevel = "MEDIUM"

\* C20: for every completed file scan, the scan's overall_risk_score,
\* overall_risk_level and total_phi_count are the risk score, risk level and
\* PHI count of its one file.
C20_FileScanTotals ==
    \A c \in Calls :
        (~IsFolderCall(c) /\ Completed(c)) =>
            /\ Cardinality(FilesOf(c)) = 1
            /\ \A file \in FilesOf(c) :
                   /\ ScanRow(c).overall_risk_score = file.risk_score
                   /\ ScanRow(c).overall_risk_level = file.risk_level
                   /\ ScanRow(c).total_phi_count = file.phi_count
                   /\ file.risk_score = local[c].phiResult.riskScore
                   /\ file.risk_level = local[c].phiResult.riskLevel
                   /\ file.phi_count = local[c].phiResult.phiCount

C20_Witness ==
    \E c \in Calls :
        /\ request[c].type = "file"
        /\ Completed(c)
        /\ ScanRow(c).overall_risk_score = 63
        /\ ScanRow(c).overall_risk_level = "HIGH"
        /\ ScanRow(c).total_phi_count = 3
        /\ \E file \in FilesOf(c) : file.phi_count = 3

(***************************************************************************)
(* Properties of the duplicate lookup.                                     *)
(***************************************************************************)
\* the files a lookup that was answered named as duplicates
DuplicatesOf(fileId) ==
    IF duplicates[fileId].status = 200
    THEN {row.id : row \in duplicates[fileId].body.duplicates}
    ELSE {}

Answered(fileId) == fileId \in DOMAIN duplicates /\ duplicates[fileId].status = 200

ProfileOf(fileId) ==
    {<<row.phi_type, row.occurrences>> : row \in {f \in phi_findings : f.file_id = fileId}}

\* C22: once two files whose findings have the same categories in the same
\* proportions have been scanned, each is among the duplicates answered for the
\* other, and a file with another profile is among the duplicates of neither.
C22_TwinsAreDuplicates ==
    \A c \in Calls :
        (IsFolderCall(c) /\ Completed(c)) =>
            \A a, b \in FilesOf(c) :
                (a.id # b.id /\ Answered(a.id)) =>
                    IF ProfileOf(a.id) # {} /\ ProfileOf(a.id) = ProfileOf(b.id)
                    THEN b.id \in DuplicatesOf(a.id)
                    ELSE b.id \notin DuplicatesOf(a.id)

(***************************************************************************)
(* Properties of a scan's record once the request has ended.               *)
(***************************************************************************)
\* C24: no request ends with the record of its scan left RUNNING: when the
\* call has returned, also after a failed datastore or alert call, a scan
\* whose record was created is COMPLETED or FAILED.
C24_EndsTerminal ==
    \A c \in Calls :
        pc[c] = "done" => StatusOf(scans, c) \in {"none", "completed", "failed"}

\* the number of files the request of call c names
RequestedFiles(c) == IF IsFolderCall(c) THEN Len(request[c].files) ELSE 1

FolderRisksOf(c) == {row \in folder_risks : row.scan_id = c}

\* C25: whenever a scan is COMPLETED, every file of the request has a
\* scanned_files record with a risk score and a risk level, the number of
\* these records is the scan's total_files, and for a folder scan the folder
\* aggregates have been computed and each is persisted as a folder_risks row.
C25_CompletedHasAllRecords ==
    \A c \in Calls :
        Completed(c) =>
            /\ Cardinality(FilesOf(c)) = ScanRow(c).total_files
            /\ Cardinality(FilesOf(c)) = RequestedFiles(c)
            /\ \A n \in 1..RequestedFiles(c) : \E row \in FilesOf(c) : row.id = <<c, n>>
            /\ \A row \in FilesOf(c) :
                   /\ row.risk_score \in 0..100
                   /\ row.risk_level \in RiskLevels
            /\ IsFolderCall(c) =>
                   /\ Len(local[c].folderAggregates) >= 1
                   /\ Cardinality(FolderRisksOf(c)) = Len(local[c].folderAggregates)
                   /\ {row.folder_path : row \in FolderRisksOf(c)}
                          = {getParentFolder(FolderKeySource(row).s, request[c].rootPath) :
                                row \in FilesOf(c)}

\* a completed folder scan of two files kept in two folders
C25_Witness ==
    \E c \in Calls :
        /\ IsFolderCall(c)
        /\ Completed(c)
        /\ ScanRow(c).total_files = 2
        /\ Cardinality(FolderRisksOf(c)) = 2
        /\ \A row \in FilesOf(c) : row.risk_score > 0

(***************************************************************************)
(* Properties of the findings of one scan (ScanSpec).                      *)
(***************************************************************************)
\* how often each pattern of the registry matches the text that was scanned
MatchCounts ==
    [n \in 1..Len(PHI_PATTERNS) |-> Len(match(textScanned.value, PHI_PATTERNS[n].pattern))]

RECURSIVE SumCounts(_, _)
SumCounts(counts, n) == IF n = 0 THEN 0 ELSE counts[n] + SumCounts(counts, n - 1)

\* the findings are those of the patterns that match, in registry order
FindingsFollow(counts, result) ==
    LET matching == {n \in DOMAIN counts : counts[n] >= 1}
    IN  /\ Len(result.findings) = Cardinality(matching)
        /\ \A n \in matching :
               LET finding == result.findings[Cardinality({m \in matching : m <= n})]
               IN  /\ finding.phiType = PHI_PATTERNS[n].type
                   /\ finding.severity = PHI_PATTERNS[n].severity
                   /\ finding.occurrences = counts[n]
                   /\ finding.confidenceScore = "0.85"
        /\ \A j, k \in 1..Len(result.findings) :
               j # k => result.findings[j].phiType # result.findings[k].phiType
        /\ result.phiCount = SumCounts(counts, Len(counts))

\* C26: scanContentForPhi emits one finding for each registry pattern that
\* matches the text at least once and none for the others, in registry order
\* and with pairwise distinct categories; each finding has the pattern's
\* severity, occurrences = its number of matches (at least 1) and confidence
\* 0.85, and phiCount is the sum of the occurrences.
C26_OneFindingPerMatchingPattern ==
    Scanned => FindingsFollow(MatchCounts, scanOut)

\* a phone number and two e-mail addresses: two findings, three occurrences
C26_Witness ==
    /\ Scanned
    /\ Len(scanOut.findings) = 2
    /\ scanOut.findings[1].phiType = "PHONE"
    /\ scanOut.findings[2].phiType = "EMAIL"
    /\ scanOut.findings[2].occurrences = 2
    /\ scanOut.phiCount = 3

\* the registry pattern of a category
PatternOf(phiType) ==
    PHI_PATTERNS[CHOOSE n \in 1..Len(PHI_PATTERNS) : PHI_PATTERNS[n].type = phiType].pattern

\* the offset (1-based) at which the engine finds the first match
FirstMatchIndex(firstEnd) ==
    CHOOSE i \in DOMAIN firstEnd : firstEnd[i] # 0 /\ \A j \in 1..(i - 1) : firstEnd[j] = 0

\* C27: the line number of every finding is 1 plus the number of newline
\* characters before the offset of the first match of its pattern, also when
\* the matched string occurs earlier in the text where the pattern does not
\* match.
C27_LineOfFirstMatch ==
    Scanned =>
        \A k \in 1..Len(scanOut.findings) :
            scanOut.findings[k].lineNumber =
                LineOf(textScanned.value,
                       FirstMatchIndex(FirstEnds(textScanned.value,
                                                 PatternOf(scanOut.findings[k].phiType))))

(***************************************************************************)
(* Properties of the stored totals of a completed scan (Spec).             *)
(***************************************************************************)
\* C28: for every completed folder scan, overall_risk_level is not lower than
\* the level the thresholds 80/60/30 give for the scan's overall_risk_score.
C28_LevelNotBelowScore ==
    \A c \in Calls :
        (IsFolderCall(c) /\ Completed(c)) =>
            LevelRank(ScanRow(c).overall_risk_level)
                >= LevelRank(ThresholdLevel(ScanRow(c).overall_risk_score))

\* a completed folder scan labelled above its score: 29 is LOW, the scan MEDIUM
C28_Witness ==
    \E c \in Calls :
        /\ IsFolderCall(c)
        /\ Completed(c)
        /\ ThresholdLevel(ScanRow(c).overall_risk_score) = "LOW"
        /\ ScanRow(c).overall_risk_level = "MEDIUM"

RECURSIVE SumOfPhiCounts(_)
SumOfPhiCounts(rows) ==
    IF rows = {} THEN 0
    ELSE LET row == CHOOSE row \in rows : TRUE IN row.phi_count + SumOfPhiCounts(rows \ {row})

RECURSIVE SumOfOccurrences(_)
SumOfOccurrences(rows) ==
    IF rows = {} THEN 0
    ELSE LET row == CHOOSE row \in rows : TRUE
         IN  row.occurrences + SumOfOccurrences(rows \ {row})

RECURSIVE SumOfTotalFiles(_)
SumOfTotalFiles(rows) ==
    IF rows = {} THEN 0
    ELSE LET row == CHOOSE row \in rows : TRUE
         IN  row.total_files + SumOfTotalFiles(rows \ {row})

FindingsOfFile(fileId) == {row \in phi_findings : row.file_id = fileId}

\* the folder_risks rows of the scan that count the file
FoldersCounting(c, file) ==
    {row \in FolderRisksOf(c) :
        row.folder_path = getParentFolder(FolderKeySource(file).s, request[c].rootPath)}

\* C29: whenever a scan is COMPLETED, its total_phi_count is the sum of
\* phi_count over its file records, each file's phi_count is the sum of
\* occurrences over the file's persisted findings, and for a folder scan the
\* total_files of its folder_risks rows add up to the number of its file
\* records, each file being counted in exactly one folder.
C29_TotalsAgreeWithRows ==
    \A c \in Calls :
        Completed(c) =>
            /\ ScanRow(c).total_phi_count = SumOfPhiCounts(FilesOf(c))
            /\ \A file \in FilesOf(c) :
                   /\ file.phi_count = SumOfOccurrences(FindingsOfFile(file.id))
                   /\ \A row \in FindingsOfFile(file.id) : row.scan_id = c
                   /\ IsFolderCall(c) => Cardinality(FoldersCounting(c, file)) = 1
            /\ IsFolderCall(c) =>
                   SumOfTotalFiles(FolderRisksOf(c)) = Cardinality(FilesOf(c))

\* a completed folder scan of two files in one folder, each with two findings
C29_Witness ==
    \E c \in Calls :
        /\ IsFolderCall(c)
        /\ Completed(c)
        /\ Cardinality(FilesOf(c)) = 2
        /\ Cardinality(FolderRisksOf(c)) = 1
        /\ \E file \in FilesOf(c) :
               /\ Cardinality(FindingsOfFile(file.id)) = 2
               /\ file.phi_count = 3
        /\ ScanRow(c).total_phi_count = 6

(***************************************************************************)
(* Properties of two scans in flight (ConcurrentSpec).                     *)
(***************************************************************************)
\* the files of the request of call c, in the order given
RequestFiles(c) == IF IsFolderCall(c) THEN request[c].files ELSE <<request[c].file>>

AloneRows(c) ==
    [n \in 1..Len(RequestFiles(c)) |->
        ScannedFileRow(<<c, n>>, c, request[c].orgId, RequestFiles(c)[n],
                       scanContentForPhi(RequestFiles(c)[n].content,
                                         RequestFiles(c)[n].fileName))]

AloneFolders(aggregates) ==
    {[folder_path |-> aggregates[k].folderPath, total_files |-> aggregates[k].totalFiles,
      total_phi_count |-> aggregates[k].totalPhiCount,
      avg_risk_score |-> aggregates[k].avgRiskScore,
      max_risk_level |-> aggregates[k].maxRiskLevel] : k \in 1..Len(aggregates)}

AgreesWithAlone(c, rows, totals) ==
    /\ FilesOf(c) = {rows[n] : n \in 1..Len(rows)}
    /\ ScanRow(c).overall_risk_score = AverageRiskScore(totals.totalRiskScore, Len(rows))
    /\ ScanRow(c).overall_risk_level = totals.maxRiskLevel
    /\ ScanRow(c).total_phi_count = totals.totalPhiCount
    /\ IsFolderCall(c) =>
           {[folder_path |-> row.folder_path, total_files |-> row.total_files,
             total_phi_count |-> row.total_phi_count, avg_risk_score |-> row.avg_risk_score,
             max_risk_level |-> row.max_risk_level] : row \in FolderRisksOf(c)}
               = AloneFolders(computeFolderAggregates(rows, request[c].rootPath).value)

\* C30: with the datastore calls of two scans interleaved in any order, every
\* file, finding, folder_risks and alert record a scan writes carries that
\* scan's own id, and the overall score, level, PHI total, file records and
\* folder aggregates of a COMPLETED scan are those its request gives alone.
C30_NoInterference ==
    /\ \A row \in scanned_files : row.scan_id = row.id[1]
    /\ \A row \in phi_findings : row.scan_id = row.file_id[1]
    /\ \A row \in alerts : row.related_scan_id = row.related_file_id[1]
    /\ \A c \in Calls :
           /\ \A k \in 1..Len(local[c].folderRisks) : local[c].folderRisks[k].scan_id = c
           /\ \A n \in 1..Len(local[c].scannedFiles) : local[c].scannedFiles[n].scan_id = c
           /\ Completed(c) =>
                  AgreesWithAlone(c, AloneRows(c), TotalsOf(AloneRows(c), Len(RequestFiles(c))))

\* the alert calls of a folder scan of two HIGH files and of a file scan took
\* turns, and both scans are COMPLETED
C30_Witness ==
    /\ Len(alertCalls) = 3
    /\ alertCalls[1].related_scan_id = 1
    /\ alertCalls[2].related_scan_id = 2
    /\ alertCalls[3].related_scan_id = 1
    /\ Completed(1)
    /\ Completed(2)
    /\ pc = <<"done", "done">>

====
